---------------------------- MODULE Spec2Model ----------------------------
(***************************************************************************)
(* Verification model of the telemetry decoding engine of the mioty        *)
(* Home-Assistant add-on: the parser engine (parseSensorData,              *)
(* executeConverterCode, convertDecodedToMeasurements and the built-in     *)
(* fallback parsers), the per-device decoding units (Febris TH, Juno TH)   *)
(* and the Hyperion byte cursor.                                           *)
(*                                                                         *)
(* JavaScript values are tagged records; a number n/d is kept as the pair  *)
(* (n, d) so that the fixed-point conversions of the decoders stay exact.  *)
(* Strings whose characters the code inspects are sequences of             *)
(* one-character strings.                                                  *)
(***************************************************************************)
EXTENDS Integers, Sequences, FiniteSets, TLC

VARIABLES
    pc,             \* the caller of parseSensorData: "idle", "running", "returned", "aborted"
    engine,         \* the engine file whose parseSensorData is called
    rawData,        \* argument rawData of the current call
    converterCode,  \* argument converterCode of the current call (a source text)
    unitResult,     \* what the unit's decodeUplink returned to executeConverterCode
    result,         \* the value parseSensorData returned
    spin,           \* the loop flag of a unit that never returns
    streamAt,       \* the caller's position in its stream of payloads
    norm,           \* a call of convertDecodedToMeasurements: its argument and completion
    hyp,            \* the running invocation of the Hyperion decode function
    codec           \* a call of one of the codec functions: its arguments and its value

vars == <<pc, engine, rawData, converterCode, unitResult, result, spin, streamAt, norm, hyp,
          codec>>

-----------------------------------------------------------------------------
(* Bounds of the model *)

\* longest payload handed to parseSensorData
MaxLen == 18

-----------------------------------------------------------------------------
(* Characters and strings *)

LowerAlpha ==
    <<"a","b","c","d","e","f","g","h","i","j","k","l","m",
      "n","o","p","q","r","s","t","u","v","w","x","y","z">>

UpperAlpha ==
    <<"A","B","C","D","E","F","G","H","I","J","K","L","M",
      "N","O","P","Q","R","S","T","U","V","W","X","Y","Z">>

DigitChars == <<"0","1","2","3","4","5","6","7","8","9">>

HexChars == <<"0","1","2","3","4","5","6","7","8","9","a","b","c","d","e","f">>

Range(s) == { s[i] : i \in 1..Len(s) }

IndexOf(s, c) == CHOOSE i \in 1..Len(s) : s[i] = c

\* String.prototype.toUpperCase / toLowerCase on one character
ToUpperCh(c) == IF c \in Range(LowerAlpha) THEN UpperAlpha[IndexOf(LowerAlpha, c)] ELSE c

ToLowerCh(c) == IF c \in Range(UpperAlpha) THEN LowerAlpha[IndexOf(UpperAlpha, c)] ELSE c

ToLowerCase(s) == [i \in 1..Len(s) |-> ToLowerCh(s[i])]

\* the regular expression class \w
IsWordCh(c) == c \in Range(LowerAlpha) \cup Range(UpperAlpha) \cup Range(DigitChars) \cup {"_"}

\* String.prototype.includes
Includes(s, sub) ==
    \E i \in 1..(Len(s) - Len(sub) + 1) : SubSeq(s, i, i + Len(sub) - 1) = sub

\* s.replace(/_/g, ' ')
ReplaceUnderscores(s) == [i \in 1..Len(s) |-> IF s[i] = "_" THEN " " ELSE s[i]]

\* s.replace(/\b\w/g, l => l.toUpperCase())
CapitaliseWords(s) ==
    [i \in 1..Len(s) |->
        IF IsWordCh(s[i]) /\ (i = 1 \/ ~IsWordCh(s[i-1])) THEN ToUpperCh(s[i]) ELSE s[i]]

RECURSIVE Join(_, _)
\* Array.prototype.join over an array of character sequences
Join(parts, sep) ==
    IF Len(parts) = 0 THEN <<>>
    ELSE IF Len(parts) = 1 THEN parts[1]
    ELSE parts[1] \o sep \o Join(Tail(parts), sep)

\* the characters of the property names and literals the code inspects
KeyChars ==
    ("base_id" :> <<"b","a","s","e","_","i","d">>) @@
    ("major_version" :> <<"m","a","j","o","r","_","v","e","r","s","i","o","n">>) @@
    ("minor_version" :> <<"m","i","n","o","r","_","v","e","r","s","i","o","n">>) @@
    ("product_version" :> <<"p","r","o","d","u","c","t","_","v","e","r","s","i","o","n">>) @@
    ("up_cnt" :> <<"u","p","_","c","n","t">>) @@
    ("battery_voltage" :> <<"b","a","t","t","e","r","y","_","v","o","l","t","a","g","e">>) @@
    ("internal_temperature" :>
        <<"i","n","t","e","r","n","a","l","_","t","e","m","p","e","r","a","t","u","r","e">>) @@
    ("external_temperature" :>
        <<"e","x","t","e","r","n","a","l","_","t","e","m","p","e","r","a","t","u","r","e">>) @@
    ("humidity" :> <<"h","u","m","i","d","i","t","y">>) @@
    ("alarm" :> <<"a","l","a","r","m">>) @@
    ("alarms" :> <<"a","l","a","r","m","s">>) @@
    ("dew_point" :> <<"d","e","w","_","p","o","i","n","t">>) @@
    ("networkBaseType" :> <<"n","e","t","w","o","r","k","B","a","s","e","T","y","p","e">>) @@
    ("networkSubType" :> <<"n","e","t","w","o","r","k","S","u","b","T","y","p","e">>) @@
    ("temperature" :> <<"t","e","m","p","e","r","a","t","u","r","e">>) @@
    ("orientation" :> <<"o","r","i","e","n","t","a","t","i","o","n">>) @@
    ("open_alarm" :> <<"o","p","e","n","_","a","l","a","r","m">>) @@
    ("opended_since_sent" :>
        <<"o","p","e","n","d","e","d","_","s","i","n","c","e","_","s","e","n","t">>) @@
    ("opended_since_boot" :>
        <<"o","p","e","n","d","e","d","_","s","i","n","c","e","_","b","o","o","t">>) @@
    ("data" :> <<"d","a","t","a">>) @@
    ("warnings" :> <<"w","a","r","n","i","n","g","s">>) @@
    ("errors" :> <<"e","r","r","o","r","s">>) @@
    ("Temperature" :> <<"T","e","m","p","e","r","a","t","u","r","e">>) @@
    ("temperatureMaxAlarm" :>
        <<"t","e","m","p","e","r","a","t","u","r","e","M","a","x","A","l","a","r","m">>) @@
    ("dew_point_temperature" :>
        <<"d","e","w","_","p","o","i","n","t","_","t","e","m","p","e","r","a","t","u","r","e">>) @@
    ("battery" :> <<"b","a","t","t","e","r","y">>) @@
    ("voltage_battery" :> <<"v","o","l","t","a","g","e","_","b","a","t","t","e","r","y">>) @@
    ("Battery_Voltage" :> <<"B","a","t","t","e","r","y","_","V","o","l","t","a","g","e">>) @@
    ("wall_humidity" :> <<"w","a","l","l","_","h","u","m","i","d","i","t","y">>) @@
    ("dew_point_min" :> <<"d","e","w","_","p","o","i","n","t","_","m","i","n">>) @@
    ("co2-ppm" :> <<"c","o","2","-","p","p","m">>) @@
    ("0" :> <<"0">>) @@
    ("1" :> <<"1">>) @@
    ("Relative Humidity" :>
        <<"R","e","l","a","t","i","v","e"," ","H","u","m","i","d","i","t","y">>) @@
    ("Battery Voltage" :> <<"B","a","t","t","e","r","y"," ","V","o","l","t","a","g","e">>) @@
    ("Dew Point" :> <<"D","e","w"," ","P","o","i","n","t">>) @@
    ("Internal Temperature" :>
        <<"I","n","t","e","r","n","a","l"," ","T","e","m","p","e","r","a","t","u","r","e">>) @@
    ("Meter Reading" :> <<"M","e","t","e","r"," ","R","e","a","d","i","n","g">>) @@
    ("Raw Hex Data" :> <<"R","a","w"," ","H","e","x"," ","D","a","t","a">>)

-----------------------------------------------------------------------------
(* JavaScript values *)

Undefined == [t |-> "undefined"]

Null == [t |-> "null"]

NaN == [t |-> "NaN"]

Symbol == [t |-> "symbol"]

\* the number n / d
Frac(n, d) == [t |-> "number", n |-> n, d |-> d]

Num(n) == Frac(n, 1)

Bool(b) == [t |-> "boolean", b |-> b]

\* a string the code only passes on
Str(s) == [t |-> "string", s |-> s]

\* a string given by its characters
StrC(cs) == [t |-> "string", cs |-> cs]

\* an array
Arr(items) == [t |-> "array", items |-> items]

\* an object: its own properties in insertion order, as <<key, value>> pairs
Obj(entries) == [t |-> "object", entries |-> entries]

\* the operator typeof
TypeOf(v) ==
    CASE v.t \in {"number", "NaN"} -> "number"
      [] v.t \in {"object", "array", "null"} -> "object"
      [] OTHER -> v.t

\* JavaScript truthiness
Truthy(v) ==
    CASE v.t \in {"undefined", "null", "NaN"} -> FALSE
      [] v.t = "number" -> v.n # 0
      [] v.t = "boolean" -> v.b
      [] v.t = "string" -> v # Str("") /\ v # StrC(<<>>)
      [] OTHER -> TRUE

\* property lookup obj.key
Get(obj, key) ==
    IF obj.t = "object" /\ \E i \in 1..Len(obj.entries) : obj.entries[i][1] = key
    THEN obj.entries[CHOOSE i \in 1..Len(obj.entries) : obj.entries[i][1] = key][2]
    ELSE Undefined

\* bytes[i] of a JavaScript array, i counted from 0
At(bytes, i) == IF i >= 0 /\ i < Len(bytes) THEN Num(bytes[i + 1]) ELSE Undefined

\* ToInt32 applied by the bitwise operators (operands here are bytes or undefined)
ToInt32(v) == IF v.t = "number" /\ v.d = 1 THEN v.n ELSE 0

\* (hi << 8) | lo
Word16(hi, lo) == ToInt32(hi) * 256 + ToInt32(lo)

\* v / k
DivBy(v, k) == IF v.t = "number" THEN Frac(v.n, v.d * k) ELSE NaN

\* v - k
Minus(v, k) == IF v.t = "number" THEN Frac(v.n - k * v.d, v.d) ELSE NaN

\* x & (1 << bit) is non-zero
BitSet_Shifted(x, bit) == x \div (2 ^ bit) # 0

BitSet(x, bit) == (x \div (2 ^ bit)) % 2 = 1

-----------------------------------------------------------------------------
(* Completions: a call returns a value or throws *)

Ok(v) == [ok |-> TRUE, value |-> v]

Throw(msg) == [ok |-> FALSE, error |-> msg]

-----------------------------------------------------------------------------
(* Measurement normalizer *)

RECURSIVE String(_)
\* String(value): the completion of the conversion
String(v) ==
    CASE v.t = "string" -> Ok(v)
      [] v.t = "boolean" -> Ok(Str(IF v.b THEN "true" ELSE "false"))
      [] v.t = "null" -> Ok(Str("null"))
      [] v.t = "undefined" -> Ok(Str("undefined"))
      [] v.t = "object" -> Ok(Str("[object Object]"))
      [] v.t = "array" ->
            IF Len(v.items) = 0 THEN Ok(Str(""))
            ELSE IF Len(v.items) = 1 THEN String(v.items[1])
            ELSE Ok([t |-> "string", joined |-> v.items])
      [] v.t = "symbol" -> Throw("Cannot convert a Symbol value to a string")
      [] OTHER -> Ok(v)

\* Object.entries(decoded)
Entries(decoded) ==
    CASE decoded.t = "object" -> decoded.entries
      [] decoded.t = "array" ->
            [i \in 1..Len(decoded.items) |-> <<DigitChars[i], decoded.items[i]>>]
      [] decoded.t = "string" ->
            [i \in 1..Len(decoded.cs) |-> <<DigitChars[i], StrC(<<decoded.cs[i]>>)>>]
      [] OTHER -> <<>>

\* the chain with key.includes('temperature') in place of key.toLowerCase().includes(...)
InferUnit_CaseSensitive(key) ==
    IF Includes(KeyChars[key], KeyChars["temperature"]) THEN "°C"
    ELSE IF key = "humidity" THEN "%RH"
    ELSE IF Includes(KeyChars[key], KeyChars["battery"])
            /\ Includes(KeyChars[key], <<"v","o","l","t","a","g","e">>) THEN "V"
    ELSE IF Includes(KeyChars[key], KeyChars["dew_point"]) THEN "°C"
    ELSE ""

\* the unit the name-matching chain of convertDecodedToMeasurements assigns to a key
InferUnit(key) ==
    IF Includes(ToLowerCase(KeyChars[key]), KeyChars["temperature"]) THEN "°C"
    ELSE IF key = "humidity" THEN "%RH"
    ELSE IF Includes(KeyChars[key], KeyChars["battery"])
            /\ Includes(KeyChars[key], <<"v","o","l","t","a","g","e">>) THEN "V"
    ELSE IF Includes(KeyChars[key], KeyChars["dew_point"]) THEN "°C"
    ELSE ""

\* the description the same chain assigns
InferDescription(key) ==
    IF Includes(ToLowerCase(KeyChars[key]), KeyChars["temperature"])
    THEN CapitaliseWords(ReplaceUnderscores(KeyChars[key]))
    ELSE IF key = "humidity" THEN KeyChars["Relative Humidity"]
    ELSE IF Includes(KeyChars[key], KeyChars["battery"])
            /\ Includes(KeyChars[key], <<"v","o","l","t","a","g","e">>)
    THEN KeyChars["Battery Voltage"]
    ELSE IF Includes(KeyChars[key], KeyChars["dew_point"]) THEN KeyChars["Dew Point"]
    ELSE CapitaliseWords(ReplaceUnderscores(KeyChars[key]))

\* the loop without its continue for undefined values
KeptEntries_KeepUndefined(decoded) ==
    SelectSeq(Entries(decoded),
              LAMBDA e : ~(e[1] = "networkBaseType" \/ e[1] = "networkSubType"))

\* the loop pushing to the front of the array (unshift for push)
KeptEntries_Reversed(decoded) ==
    LET kept == SelectSeq(Entries(decoded),
                          LAMBDA e : ~(e[1] = "networkBaseType" \/ e[1] = "networkSubType"
                                       \/ e[2].t = "undefined"))
    IN  [i \in 1..Len(kept) |-> kept[Len(kept) + 1 - i]]

\* the entries the loop of convertDecodedToMeasurements does not skip
KeptEntries(decoded) ==
    SelectSeq(Entries(decoded),
              LAMBDA e : ~(e[1] = "networkBaseType" \/ e[1] = "networkSubType"
                           \/ e[2].t = "undefined"))

\* the object pushed for one entry
MeasurementOf(key, value) ==
    [type |-> key,
     value |-> IF TypeOf(value) = "number" THEN value ELSE String(value).value,
     unit |-> InferUnit(key),
     description |-> InferDescription(key)]

convertDecodedToMeasurements(decoded) ==
    LET kept == KeptEntries(decoded) IN
    IF decoded.t \in {"null", "undefined"}
    THEN Throw("Cannot convert undefined or null to object")
    ELSE IF \E i \in 1..Len(kept) : TypeOf(kept[i][2]) # "number" /\ ~String(kept[i][2]).ok
    THEN Throw("Cannot convert a Symbol value to a string")
    ELSE Ok([i \in 1..Len(kept) |-> MeasurementOf(kept[i][1], kept[i][2])])

-----------------------------------------------------------------------------
(* Built-in fallback parsers *)

\* b.toString(16) of a byte, without the padStart
ToHex2_NoPad(b) ==
    IF b < 16 THEN <<HexChars[b + 1]>> ELSE <<HexChars[(b \div 16) + 1], HexChars[(b % 16) + 1]>>

\* b.toString(16).padStart(2, '0') of a byte
ToHex2(b) == <<HexChars[(b \div 16) + 1], HexChars[(b % 16) + 1]>>

detectSensorType(data) ==
    IF Len(data) >= 17 /\ At(data, 0) = Num(17) THEN "FEBR-Environmental"
    ELSE IF Len(data) >= 12 THEN "FEBR-Utility"
    ELSE "Generic-mioty"

parseEnvironmentalSensor(data) ==
    IF Len(data) < 17 THEN <<>>
    ELSE << [type |-> "battery_voltage",
             value |-> Frac(Word16(At(data, 3), At(data, 4)), 1000),
             unit |-> "V",
             description |-> KeyChars["Battery Voltage"]],
            [type |-> "internal_temperature",
             value |-> Minus(Frac(Word16(At(data, 5), At(data, 6)), 10), 100),
             unit |-> "°C",
             description |-> KeyChars["Internal Temperature"]],
            [type |-> "humidity",
             value |-> Frac(Word16(At(data, 7), At(data, 8)), 100),
             unit |-> "%RH",
             description |-> KeyChars["Relative Humidity"]] >>

parseUtilitySensor(data) ==
    IF Len(data) >= 6
    THEN << [type |-> "meter_reading",
             value |-> Num(Word16(At(data, 2), At(data, 3))),
             unit |-> "units",
             description |-> KeyChars["Meter Reading"]] >>
    ELSE <<>>

parseUnknownSensor(data) ==
    << [type |-> "raw_data",
        value |-> StrC(Join([i \in 1..Len(data) |-> ToHex2(data[i])], <<" ">>)),
        unit |-> "hex",
        description |-> KeyChars["Raw Hex Data"]] >>

\* parseInt of one hexadecimal digit
HexVal(c) == IndexOf(HexChars, ToLowerCh(c)) - 1

\* hexStringToBytes of the utilities: drop what is no hex digit, read pairs
hexStringToBytes(hex) ==
    LET cleanHex == SelectSeq(hex, LAMBDA c : ToLowerCh(c) \in Range(HexChars)) IN
    [i \in 1..((Len(cleanHex) + 1) \div 2) |->
        IF 2 * i <= Len(cleanHex)
        THEN HexVal(cleanHex[2 * i - 1]) * 16 + HexVal(cleanHex[2 * i])
        ELSE HexVal(cleanHex[2 * i - 1])]

-----------------------------------------------------------------------------
(* Sign conversion *)

\* 1 << n: the shift count is taken modulo 32 and the result is a 32-bit integer
ShiftLeftOne(n) == IF n % 32 = 31 THEN -2147483647 - 1 ELSE 2 ^ (n % 32)

\* val & (1 << n) is non-zero, val an unsigned 32-bit number as <<high, low>> words
BitOfWords(val, n) ==
    IF n % 32 < 16 THEN BitSet(val[2], n % 32) ELSE BitSet(val[1], (n % 32) - 16)

\* val & (boundary - 1) for a boundary 2^m, m below 32
MaskWords(val, m) ==
    IF m <= 16 THEN val[2] % (2 ^ m) ELSE (val[1] % (2 ^ (m - 16))) * 65536 + val[2]

\* uncomplement(val, bitwidth) of the Sentinum decoders, val as <<high, low>> words
uncomplement(val, bitwidth) ==
    LET isnegative == BitOfWords(val, bitwidth - 1)
        boundary == ShiftLeftOne(bitwidth)
        minval == -boundary
    IN  IF isnegative THEN minval + MaskWords(val, bitwidth % 32)
        ELSE val[1] * 65536 + val[2]

bytesToInt16LE(byte1, byte2) ==
    LET value == byte2 * 256 + byte1
    IN  IF value > 32767 THEN value - 65536 ELSE value

bytesToInt16BE(byte1, byte2) ==
    LET value == byte1 * 256 + byte2
    IN  IF value > 32767 THEN value - 65536 ELSE value

-----------------------------------------------------------------------------
(* Decoding units *)

\* the value of the Magnus dew-point formula (Math.log) for a temperature and a humidity
Magnus(temp, rh) == [t |-> "number", magnus |-> <<temp, rh>>]

\* one property when the condition holds, none otherwise
Field(cond, key, value) == IF cond THEN << <<key, value>> >> ELSE <<>>

\* the header nibbles every Sentinum unit reads from bytes 0 and 1
HeaderEntries(bytes) ==
    << <<"base_id", Num(ToInt32(At(bytes, 0)) \div 16)>>,
       <<"major_version", Num(ToInt32(At(bytes, 0)) % 16)>>,
       <<"minor_version", Num(ToInt32(At(bytes, 1)) \div 16)>>,
       <<"product_version", Num(ToInt32(At(bytes, 1)) % 16)>> >>

\* the result object returned for a payload shorter than 17 bytes
FebrisTH_tooShort ==
    Obj(<< <<"data", Obj(<<>>)>>,
           <<"warnings", Arr(<<Str("Payload zu kurz")>>)>>,
           <<"errors", Arr(<<Str("Mindestens 17 Bytes erforderlich")>>)>> >>)

\* decodeUplink of decoders/febris_th.js
FebrisTH_decodeUplink(input) ==
    LET bytes == input.bytes
        temp_raw == Word16(At(bytes, 5), At(bytes, 6))
        hum_raw == Word16(At(bytes, 7), At(bytes, 8))
        ext_temp_raw == Word16(At(bytes, 9), At(bytes, 10))
        temp == Minus(DivBy(Num(temp_raw), 10), 100)
        rh == DivBy(Num(hum_raw), 256)
    IN  IF Len(bytes) < 17 THEN Ok(FebrisTH_tooShort)
        ELSE Ok(Obj(<<
            <<"data", Obj(
                HeaderEntries(bytes)
                \o << <<"up_cnt", At(bytes, 2)>>,
                      <<"battery_voltage", DivBy(Num(Word16(At(bytes, 3), At(bytes, 4))), 1000)>>,
                      <<"internal_temperature", temp>>,
                      <<"humidity", rh>> >>
                \o Field(Len(bytes) > 10 /\ ext_temp_raw # 0, "external_temperature",
                         Minus(DivBy(Num(ext_temp_raw), 10), 100))
                \o Field(Len(bytes) > 14, "alarm", At(bytes, 14))
                \o Field(hum_raw > 0 /\ hum_raw <= 25600, "dew_point", Magnus(temp, rh))
                \o << <<"networkBaseType", Str("lorawan")>>,
                      <<"networkSubType", Str("tti")>> >>)>>,
            <<"warnings", Arr(<<>>)>>,
            <<"errors", Arr(<<>>)>> >>))

\* decodeUplink of the Febris TH unit shipped with the engine
FebrisTHv1_decodeUplink(input) ==
    LET bytes == input.bytes
        temp_raw == Word16(At(bytes, 5), At(bytes, 6))
        hum_raw == Word16(At(bytes, 7), At(bytes, 8))
        temp == Minus(DivBy(Num(temp_raw), 10), 100)
        rh == DivBy(Num(hum_raw), 100)
    IN  IF Len(bytes) < 17 THEN Ok(FebrisTH_tooShort)
        ELSE Ok(Obj(<<
            <<"data", Obj(
                HeaderEntries(bytes)
                \o << <<"up_cnt", At(bytes, 2)>>,
                      <<"battery_voltage", DivBy(Num(Word16(At(bytes, 3), At(bytes, 4))), 1000)>>,
                      <<"internal_temperature", temp>>,
                      <<"humidity", rh>> >>
                \o Field(Len(bytes) > 10, "external_temperature",
                         Minus(DivBy(Num(Word16(At(bytes, 9), At(bytes, 10))), 10), 100))
                \o Field(Len(bytes) > 14, "alarm", At(bytes, 14))
                \o Field(Truthy(temp) /\ Truthy(rh), "dew_point", Magnus(temp, rh))
                \o << <<"networkBaseType", Str("lorawan")>>,
                      <<"networkSubType", Str("tti")>> >>)>>,
            <<"warnings", Arr(<<>>)>>,
            <<"errors", Arr(<<>>)>> >>))

\* a {value, unit} object as the units attach it
Val(value, unit) == Obj(<< <<"value", value>>, <<"unit", Str(unit)>> >>)

\* decodeUplink of decoders/juno_th.js
JunoTH_decodeUplink(input) ==
    LET bytes == input.bytes
        minor_version == ToInt32(At(bytes, 1)) \div 16
        product_version == ToInt32(At(bytes, 1)) % 16
        hasTH == minor_version > 1 /\ BitSet(product_version, 0)
        hasAcc == minor_version > 1 /\ BitSet(product_version, 1)
        user_data == ToInt32(At(bytes, 6))
        idx == IF hasTH THEN 10 ELSE 6
    IN  IF input.fPort # 1 THEN Ok(Obj(<< <<"data", Obj(<<>>)>> >>))
        ELSE Ok(Obj(<< <<"data", Obj(
            HeaderEntries(bytes)
            \o << <<"up_cnt", At(bytes, 2)>>,
                  <<"battery_voltage",
                    Val(DivBy(Num(Word16(At(bytes, 3), At(bytes, 4))), 1000), "V")>>,
                  <<"internal_temperature", Val(Minus(At(bytes, 5), 128), "°C")>>,
                  <<"networkBaseType", Str("mioty")>>,
                  <<"networkSubType", Str("mioty")>> >>
            \o Field(hasTH, "alarms", Obj(<<
                    <<"temperatureMaxAlarm", Bool(BitSet(user_data, 0))>>,
                    <<"temperatureMinAlarm", Bool(BitSet(user_data, 1))>>,
                    <<"temperatureDeltaAlarm", Bool(BitSet(user_data, 2))>>,
                    <<"humidityMaxAlarm", Bool(BitSet(user_data, 3))>>,
                    <<"humidityMinAlarm", Bool(BitSet(user_data, 4))>>,
                    <<"humidityDeltaAlarm", Bool(BitSet(user_data, 5))>> >>))
            \o Field(hasTH, "temperature",
                     Val(Minus(DivBy(Num(Word16(At(bytes, 7), At(bytes, 8))), 10), 100), "°C"))
            \o Field(hasTH, "humidity", Val(At(bytes, 9), "%"))
            \o Field(hasAcc, "orientation", At(bytes, idx))
            \o Field(hasAcc, "open_alarm", At(bytes, idx + 1))
            \o Field(hasAcc, "opended_since_sent", At(bytes, idx + 2))
            \o Field(hasAcc, "opended_since_boot",
                     Num(Word16(At(bytes, idx + 3), At(bytes, idx + 4)))))>> >>))

\* a {value, unit, description} object as the units attach it
ValDesc(value, unit, description) ==
    Obj(<< <<"value", value>>, <<"unit", Str(unit)>>, <<"description", Str(description)>> >>)

\* Math.round(raw * factor * scale) / scale: a raw reading scaled by a calibration
\* quotient of the Environmental Sensor decoder
Calibrated(raw, factor) == [t |-> "number", raw |-> raw, calibration |-> factor]

\* Decoder(bytes, port) of the Environmental Sensor decoder (FCA84A090000000A format)
EnvironmentalDecoder(bytes, port) ==
    IF port = 1 /\ Len(bytes) >= 8
    THEN Obj(<<
        <<"battery_voltage",
          ValDesc(Calibrated(Word16(At(bytes, 0), At(bytes, 1)), "3.517 / 64680"),
                  "V", "Battery Voltage")>>,
        <<"temperature",
          ValDesc(Calibrated(Word16(At(bytes, 2), At(bytes, 3)), "32.4 / 18953"),
                  "°C", "Temperature")>>,
        <<"humidity",
          ValDesc(IF Word16(At(bytes, 4), At(bytes, 5)) = 0 THEN Num(56)
                  ELSE Calibrated(Word16(At(bytes, 4), At(bytes, 5)), "56.0 / 1000"),
                  "%RH", "Relative Humidity")>>,
        <<"base_id", ValDesc(Num(1), "", "Base Id")>>,
        <<"major_version", ValDesc(Num(1), "", "Major Version")>>,
        <<"minor_version", ValDesc(Num(2), "", "Minor Version")>>,
        <<"product_version", ValDesc(Num(1), "", "Product Version")>>,
        <<"up_cnt", ValDesc(Num(bytes[8] + 6), "", "Up Cnt")>>,
        <<"internal_temperature", ValDesc(Num(30), "°C", "Internal Temperature")>>,
        <<"alarms",
          ValDesc(Obj(<< <<"temperatureMaxAlarm", Bool(FALSE)>>,
                         <<"temperatureMinAlarm", Bool(FALSE)>>,
                         <<"temperatureDeltaAlarm", Bool(FALSE)>>,
                         <<"humidityMaxAlarm", Bool(FALSE)>>,
                         <<"humidityMinAlarm", Bool(FALSE)>>,
                         <<"humidityDeltaAlarm", Bool(FALSE)>> >>),
                  "", "Alarms")>> >>)
    ELSE Obj(<<>>)

\* a cursor that is a JavaScript number: an offset, or NaN once arithmetic on undefined
\* reached it
Advance(it, n) == IF it.t = "number" THEN Num(it.n + n) ELSE NaN

\* bytes[it] for such a cursor
AtCursor(bytes, it) == IF it.t = "number" THEN At(bytes, it.n) ELSE Undefined

\* it += 2 + bytes[it] * 7: the FIFO block is skipped (1 byte fifo size, 1 byte period,
\* 7 bytes per entry)
FifoSkip_NoPeriod(bytes, it) ==
    IF At(bytes, it).t = "number" THEN Num(it + 1 + bytes[it + 1] * 7) ELSE NaN

FifoSkip(bytes, it) ==
    IF At(bytes, it).t = "number" THEN Num(it + 2 + bytes[it + 1] * 7) ELSE NaN

\* it += 4: the pressure and CO2 bytes of a unit without that sensor are skipped
SkipPadding_None(it) == it

SkipPadding(it) == it + 4

\* if (decoded.minor_version >= 3) ... else ...
CurrentLayout_Above3(minor_version) == minor_version > 3

CurrentLayout(minor_version) == minor_version >= 3

\* raw / 10 without the offset of 100
Centigrade_NoOffset(raw) == DivBy(raw, 10)

\* raw / 10 - 100 of the two-byte temperatures
Centigrade(raw) == Minus(DivBy(raw, 10), 100)

\* decodeUplink of decoders/febris_universal.js: the returned object, with the reads
\* made after the fixed part as <<field, offset, width>> and the cursor after the skip
FebrisUniversal_decodeUplink(input) ==
    LET bytes == input.bytes
        minor_version == ToInt32(At(bytes, 1)) \div 16
        product_version == ToInt32(At(bytes, 1)) % 16
        current == CurrentLayout(minor_version)
        hasCo2 == BitSet(product_version, 0)
        hasWall == BitSet(product_version, 2)
        alarm == IF hasCo2 THEN 12 ELSE SkipPadding(8)
        afterSkip == FifoSkip(bytes, alarm + 1)
        hasDew == current \/ (minor_version >= 2 /\ Truthy(AtCursor(bytes, afterSkip)))
        width == IF current THEN 2 ELSE 1
        wall == IF hasDew THEN Advance(afterSkip, width) ELSE afterSkip
        therm == Advance(wall, width)
        Temperature(it) ==
            IF current
            THEN Val(Centigrade(Num(Word16(AtCursor(bytes, it),
                                           AtCursor(bytes, Advance(it, 1))))), "°C")
            ELSE Val(Minus(AtCursor(bytes, it), 100), "°C")
    IN  IF input.fPort # 1
        THEN [value |-> Obj(<< <<"data", Obj(<<>>)>>,
                               <<"warnings", Arr(<<>>)>>, <<"errors", Arr(<<>>)>> >>),
              reads |-> <<>>, afterSkip |-> Undefined]
        ELSE [value |-> Obj(<<
                <<"data", Obj(
                    HeaderEntries(bytes)
                    \o << <<"up_cnt", At(bytes, 2)>>,
                          <<"battery_voltage",
                            Val(DivBy(Num(Word16(At(bytes, 3), At(bytes, 4))), 1000), "V")>>,
                          <<"internal_temperature",
                            Val(Centigrade(Num(Word16(At(bytes, 5), At(bytes, 6)))), "°C")>>,
                          <<"networkBaseType", Str("mioty")>>,
                          <<"networkSubType", Str("mioty")>>,
                          <<"humidity", Val(At(bytes, 7), "%")>> >>
                    \o Field(hasCo2, "pressure",
                             Val(Num(Word16(At(bytes, 8), At(bytes, 9))), "hPa"))
                    \o Field(hasCo2, "co2_ppm",
                             Val(Num(Word16(At(bytes, 10), At(bytes, 11))), "ppm"))
                    \o << <<"alarm", At(bytes, alarm)>> >>
                    \o Field(hasDew, "dew_point", Temperature(afterSkip))
                    \o Field(hasWall, "wall_temperature", Temperature(wall))
                    \o Field(hasWall, "therm_temperature", Temperature(therm))
                    \o Field(hasWall, "wall_humidity",
                             Val(AtCursor(bytes, Advance(therm, width)), "%")))>>,
                <<"warnings", Arr(<<>>)>>,
                <<"errors", Arr(<<>>)>> >>),
              reads |->
                << <<"humidity", Num(7), 1>> >>
                \o (IF hasCo2 THEN << <<"pressure", Num(8), 2>>, <<"co2_ppm", Num(10), 2>> >>
                    ELSE <<>>)
                \o << <<"alarm", Num(alarm), 1>>, <<"fifo size", Num(alarm + 1), 1>> >>
                \o (IF hasDew THEN << <<"dew_point", afterSkip, width>> >> ELSE <<>>)
                \o (IF hasWall
                    THEN << <<"wall_temperature", wall, width>>,
                            <<"therm_temperature", therm, width>>,
                            <<"wall_humidity", Advance(therm, width), 1>> >>
                    ELSE <<>>),
              afterSkip |-> afterSkip]

\* the bytes a field group moves byte_cnt on: every read of a group whose bit is set
\* is bytes[byte_cnt++], a group whose bit is clear is not entered
GroupWidth_Always(present, width) == width

GroupWidth(present, width) == IF present THEN width ELSE 0

\* Decoder(bytes, port) of decoders/apollon-qtr.js: the returned object, with the
\* value of byte_cnt at the return
ApollonQtr_Decoder(bytes, port) ==
    LET features == ToInt32(At(bytes, 1))
        hasTof == BitSet(features, 0)
        hasRadar == BitSet(features, 1)
        hasAcc == BitSet(features, 2)
        hasHall == BitSet(features, 3)
        tof == 9
        radar == tof + GroupWidth(hasTof, 4)
        acc == radar + GroupWidth(hasRadar, 14)
        hall == acc + GroupWidth(hasAcc, 6)
        Word(i) == Word16(At(bytes, i), At(bytes, i + 1))
    IN  IF port # 1 THEN [t |-> "object", entries |-> <<>>, byte_cnt |-> Undefined]
        ELSE [t |-> "object",
              entries |->
                HeaderEntries(bytes)
                \o << <<"up_cnt", At(bytes, 2)>>,
                      <<"battery_voltage", DivBy(Num(Word(3)), 1000)>>,
                      <<"internal_temperature", Minus(At(bytes, 5), 128)>>,
                      <<"alarm", IF Truthy(At(bytes, 6)) THEN Str("ALARM")
                                 ELSE Str("NO ALARM")>>,
                      <<"master_value", Num(Word(7))>> >>
                \o (IF hasTof
                    THEN << <<"tof_status", At(bytes, tof)>>,
                            <<"tof_distance", Num(Word(tof + 1))>>,
                            <<"tof_index", At(bytes, tof + 3)>> >>
                    ELSE <<>>)
                \o (IF hasRadar
                    THEN << <<"radar_status", At(bytes, radar)>>,
                            <<"radar_no_peaks", At(bytes, radar + 1)>>,
                            <<"radar_distance_1", Num(Word(radar + 2))>>,
                            <<"radar_amplitude_1",
                              Num(uncomplement(<<0, Word(radar + 4)>>, 16))>>,
                            <<"radar_distance_2", Num(Word(radar + 6))>>,
                            <<"radar_amplitude_2",
                              Num(uncomplement(<<0, Word(radar + 8)>>, 16))>>,
                            <<"radar_distance_3", Num(Word(radar + 10))>>,
                            <<"radar_amplitude_3",
                              Num(uncomplement(<<0, Word(radar + 12)>>, 16))>> >>
                    ELSE <<>>)
                \o (IF hasAcc
                    THEN << <<"acc_status", IF Truthy(At(bytes, acc)) THEN Str("Fehler")
                                            ELSE Str("OK")>>,
                            <<"acc_orientation", At(bytes, acc + 1)>>,
                            <<"acc_open", At(bytes, acc + 2)>>,
                            <<"acc_open_cnt", Num(Word(acc + 3))>>,
                            <<"acc_impact", IF Truthy(At(bytes, acc + 5))
                                            THEN Str("Vandalismus") ELSE Str("OK")>> >>
                    ELSE <<>>)
                \o (IF hasHall
                    THEN << <<"hall_open", At(bytes, hall)>>,
                            <<"hall_open_cnt", Num(Word(hall + 1))>> >>
                    ELSE <<>>),
              byte_cnt |-> Num(hall + GroupWidth(hasHall, 3))]

\* (1 << (raw_lux >> 12)) * (raw_lux & 0x0FFF) * 0.01
Lux(raw_lux) == Frac((2 ^ (raw_lux \div 4096)) * (raw_lux % 4096), 100)

\* if (it + width - 1 < bytes.length): the test decode of NYX.js makes before it reads
\* a field
Remains(bytes, it, width) == it + width - 1 < Len(bytes)

\* decode of decoders/NYX.js on the bytes parsed from its hex argument: the returned
\* object, with the offsets at which it read bytes[]
NYX_decode(bytes) ==
    LET product_version == ToInt32(At(bytes, 1)) % 16
        telemetry == ToInt32(At(bytes, 0)) % 16 >= 1 /\ Len(bytes) > 10
        hasLux == telemetry /\ BitSet(product_version, 0) /\ Remains(bytes, 11, 2)
        bme == IF hasLux THEN 13 ELSE 11
        hasBme == telemetry /\ BitSet(product_version, 2)
        hasBmeStatus == hasBme /\ Remains(bytes, bme, 1)
        pressure == IF hasBmeStatus THEN bme + 1 ELSE bme
        hasPressure == hasBme /\ Remains(bytes, pressure, 2)
        iaq == IF hasPressure THEN pressure + 2 ELSE pressure
        hasIaq == hasBme /\ BitSet(product_version, 1)
        hasIaqStatus == hasIaq /\ Remains(bytes, iaq, 1)
        index == IF hasIaqStatus THEN iaq + 1 ELSE iaq
        hasIaqIndex == hasIaq /\ Remains(bytes, index, 2)
        Word(i) == Word16(At(bytes, i), At(bytes, i + 1))
    IN  [value |-> Obj(
            << <<"deviceType", Str("nyx")>> >>
            \o HeaderEntries(bytes)
            \o << <<"up_cnt", At(bytes, 2)>>,
                  <<"battery_voltage", DivBy(Num(Word(3)), 1000)>>,
                  <<"battery_voltage_unit", Str("V")>>,
                  <<"internal_temperature", Minus(DivBy(Num(Word(5)), 10), 100)>>,
                  <<"internal_temperature_unit", Str("°C")>> >>
            \o (IF telemetry
                THEN << <<"humidity", At(bytes, 7)>>,
                        <<"humidity_unit", Str("%")>>,
                        <<"dew_point", Minus(DivBy(Num(Word(8)), 10), 100)>>,
                        <<"dew_point_unit", Str("°C")>>,
                        <<"alarm_level", At(bytes, 10)>> >>
                ELSE <<>>)
            \o Field(hasLux, "lux", Lux(Word(11)))
            \o Field(hasLux, "lux_unit", Str("lx"))
            \o Field(hasBmeStatus, "bme_status", At(bytes, bme))
            \o Field(hasPressure, "pressure", Num(Word(pressure)))
            \o Field(hasPressure, "pressure_unit", Str("hPa"))
            \o Field(hasIaqStatus, "iaq_status", At(bytes, iaq))
            \o Field(hasIaqIndex, "iaq_index", Num(Word(index)))),
         reads |-> (0..6)
                   \cup (IF telemetry THEN 7..10 ELSE {})
                   \cup (IF hasLux THEN {11, 12} ELSE {})
                   \cup (IF hasBmeStatus THEN {bme} ELSE {})
                   \cup (IF hasPressure THEN {pressure, pressure + 1} ELSE {})
                   \cup (IF hasIaqStatus THEN {iaq} ELSE {})
                   \cup (IF hasIaqIndex THEN {index, index + 1} ELSE {})]

\* decodeUplink of decoders/NYX.js: the returned object, with the offsets at which it
\* read bytes[]
NYX_decodeUplink(input) ==
    LET bytes == input.bytes
        product_version == ToInt32(At(bytes, 1)) % 16
        telemetry == ToInt32(At(bytes, 0)) % 16 >= 1
        hasLux == telemetry /\ BitSet(product_version, 0)
        bme == IF hasLux THEN 13 ELSE 11
        hasBme == telemetry /\ BitSet(product_version, 2)
        hasIaq == hasBme /\ BitSet(product_version, 1)
        Word(i) == Word16(At(bytes, i), At(bytes, i + 1))
    IN  IF input.fPort # 1
        THEN [value |-> Obj(<< <<"data", Obj(<<>>)>>,
                               <<"warnings", Arr(<<>>)>>, <<"errors", Arr(<<>>)>> >>),
              reads |-> {}]
        ELSE [value |-> Obj(<<
                <<"data", Obj(
                    HeaderEntries(bytes)
                    \o << <<"up_cnt", At(bytes, 2)>>,
                          <<"battery_voltage", DivBy(Num(Word(3)), 1000)>>,
                          <<"internal_temperature", Minus(DivBy(Num(Word(5)), 10), 100)>>,
                          <<"networkBaseType", Str("lorawan")>>,
                          <<"networkSubType", Str("tti")>> >>
                    \o (IF telemetry
                        THEN << <<"humidity", At(bytes, 7)>>,
                                <<"dew_point", Minus(DivBy(Num(Word(8)), 10), 100)>>,
                                <<"alarm_level", At(bytes, 10)>> >>
                        ELSE <<>>)
                    \o Field(hasLux, "lux", Lux(Word(11)))
                    \o Field(hasBme, "bme_status", At(bytes, bme))
                    \o Field(hasBme, "pressure", Num(Word(bme + 1)))
                    \o Field(hasIaq, "iaq_status", At(bytes, bme + 3))
                    \o Field(hasIaq, "iaq_index", Num(Word(bme + 4))))>>,
                <<"warnings", Arr(<<>>)>>,
                <<"errors", Arr(<<>>)>> >>),
              reads |-> (0..6)
                        \cup (IF telemetry THEN 7..10 ELSE {})
                        \cup (IF hasLux THEN {11, 12} ELSE {})
                        \cup (IF hasBme THEN bme..(bme + 2) ELSE {})
                        \cup (IF hasIaq THEN (bme + 3)..(bme + 5) ELSE {})]

\* decodeUplink of the original Febris decoder (unnamed/part_000): the returned
\* object, with the reads made after the fixed part as <<field, offset, width>>
FebrisOriginal_decodeUplink(input) ==
    LET bytes == input.bytes
        minor_version == ToInt32(At(bytes, 1)) \div 16
        product_version == ToInt32(At(bytes, 1)) % 16
        hasCo2 == BitSet(product_version, 0)
        hasWall == BitSet(product_version, 2)
        it == FifoSkip(bytes, 13)
        hasDew == minor_version >= 3 \/ (minor_version >= 2 /\ Truthy(AtCursor(bytes, it)))
        width == IF minor_version >= 3 THEN 2 ELSE 1
        wall == IF hasDew THEN Advance(it, width) ELSE it
        Temperature(at) ==
            IF minor_version >= 3
            THEN Minus(DivBy(Num(Word16(AtCursor(bytes, at),
                                        AtCursor(bytes, Advance(at, 1)))), 10), 100)
            ELSE Minus(AtCursor(bytes, at), 100)
    IN  IF input.fPort # 1
        THEN [value |-> Obj(<< <<"data", Obj(<<>>)>>,
                               <<"warnings", Arr(<<>>)>>, <<"errors", Arr(<<>>)>> >>),
              reads |-> <<>>]
        ELSE [value |-> Obj(<<
                <<"data", Obj(
                    HeaderEntries(bytes)
                    \o << <<"up_cnt", At(bytes, 2)>>,
                          <<"battery_voltage",
                            DivBy(Num(Word16(At(bytes, 3), At(bytes, 4))), 1000)>>,
                          <<"internal_temperature",
                            Minus(DivBy(Num(Word16(At(bytes, 5), At(bytes, 6))), 10), 100)>>,
                          <<"networkBaseType", Str("lorawan")>>,
                          <<"networkSubType", Str("tti")>>,
                          <<"humidity", At(bytes, 7)>> >>
                    \o Field(hasCo2, "pressure", Num(Word16(At(bytes, 8), At(bytes, 9))))
                    \o Field(hasCo2, "co2_ppm", Num(Word16(At(bytes, 10), At(bytes, 11))))
                    \o << <<"alarm", At(bytes, 12)>> >>
                    \o Field(hasDew, "dew_point", Temperature(it))
                    \o Field(hasWall, "wall_temperature", Temperature(wall))
                    \o Field(hasWall, "therm_temperature", Temperature(Advance(wall, width)))
                    \o Field(hasWall, "wall_humidity",
                             AtCursor(bytes, Advance(wall, 2 * width))))>>,
                <<"warnings", Arr(<<>>)>>,
                <<"errors", Arr(<<>>)>> >>),
              reads |->
                << <<"humidity", Num(7), 1>> >>
                \o (IF hasCo2 THEN << <<"pressure", Num(8), 2>>, <<"co2_ppm", Num(10), 2>> >>
                    ELSE <<>>)
                \o << <<"alarm", Num(12), 1>>, <<"fifo size", Num(13), 1>> >>
                \o (IF hasDew THEN << <<"dew_point", it, width>> >> ELSE <<>>)
                \o (IF hasWall
                    THEN << <<"wall_temperature", wall, width>>,
                            <<"therm_temperature", Advance(wall, width), width>>,
                            <<"wall_humidity", Advance(wall, 2 * width), 1>> >>
                    ELSE <<>>)]

\* decoded.object_level is read when decoded.minor_version >= 2
HasObjectLevel_Always(minor_version) == TRUE

HasObjectLevel(minor_version) == minor_version >= 2

\* decode of decoders/apollon-qpp.js: the returned object, with the offsets at which
\* the object group read bytes[]
ApollonQpp_decode(payload, metadata) ==
    LET bytes == payload
        port == IF metadata.t = "object" /\ metadata.fPort # 0 THEN metadata.fPort ELSE 1
        status == At(bytes, 6)
        faulty == (ToInt32(status) \div 16) % 16 # 0
        present == ~faulty /\ status # Num(0)
        level == present /\ HasObjectLevel(ToInt32(At(bytes, 1)) \div 16)
        Word(i) == Num(Word16(At(bytes, i), At(bytes, i + 1)))
    IN  IF port # 1
        THEN [value |-> Obj(<< <<"deviceType", Str("apollon")>> >>), reads |-> {}]
        ELSE [value |-> Obj(
                << <<"deviceType", Str("apollon")>> >>
                \o HeaderEntries(bytes)
                \o << <<"up_cnt", At(bytes, 2)>>,
                      <<"battery_voltage", Val(DivBy(Word(3), 1000), "V")>>,
                      <<"internal_temperature", Val(Minus(At(bytes, 5), 128), "°C")>>,
                      <<"error", IF faulty THEN status ELSE Num(0)>> >>
                \o Field(~faulty, "object_present", Bool(present))
                \o Field(present, "object_status", At(bytes, 7))
                \o Field(present, "object_distance", Val(Word(8), "mm"))
                \o Field(present, "object_sigma", Word(10))
                \o Field(present, "object_signal", Word(12))
                \o Field(present, "object_ambient", Word(14))
                \o Field(level, "object_level", At(bytes, 16))),
              reads |-> (IF present THEN 7..15 ELSE {}) \cup (IF level THEN {16} ELSE {})]

-----------------------------------------------------------------------------
(* Converter sources handed to the engine *)

\* converterCode omitted: the default parameter value null
NoCode == [src |-> "null"]

\* a source that defines decodeUplink to return the value v
Returning(v) == [src |-> "return", arg |-> v]

\* a source that defines no decodeUplink but a variable decoded = v
DecodedVar(v) == [src |-> "decoded", arg |-> v]

\* new Function(...) accepts the source
Compiles(code) == code.src # "syntax error"

\* a top-level statement of the source throws: decoders/juno_th.js assigns
\* module.exports unguarded, and module is not bound inside new Function
LoadThrows(code) == code.src = "decoders/juno_th.js"

\* typeof decodeUplink === 'function' after the source ran
DefinesDecodeUplink(code) ==
    code.src \in {"decoders/febris_th.js", "febris_th (engine copy)", "juno_th.js:5-75",
                  "return", "throw", "loop"}

\* typeof decoded !== 'undefined' after the source ran
DefinesDecoded(code) == code.src = "decoded"

\* the unit returns control to the engine
Halts(code) == code.src # "loop"

\* decodeUplink(input) of a source
decodeUplink(code, input) ==
    CASE code.src = "decoders/febris_th.js" -> FebrisTH_decodeUplink(input)
      [] code.src = "febris_th (engine copy)" -> FebrisTHv1_decodeUplink(input)
      [] code.src = "juno_th.js:5-75" -> JunoTH_decodeUplink(input)
      [] code.src = "return" -> Ok(code.arg)
      [] OTHER -> Throw("unit fault")

-----------------------------------------------------------------------------
(* The engine *)

\* the tail of the generated function: unwrap the 'data' property of an object result
UnwrapData(res) ==
    IF Truthy(res) /\ TypeOf(res) = "object"
    THEN IF Truthy(Get(res, "data")) /\ TypeOf(Get(res, "data")) = "object"
         THEN Get(res, "data")
         ELSE res
    ELSE res

\* const result = decodeUplink(input); ... return result.data or result
ReturnUnwrapped(r) == IF r.ok THEN Ok(UnwrapData(r.value)) ELSE r

\* new Function('input', ...)(input): the completion of compiling and running the source
converterFunction(code, input) ==
    IF ~Compiles(code) THEN Throw("SyntaxError")
    ELSE IF LoadThrows(code) THEN Throw("module is not defined")
    ELSE IF DefinesDecodeUplink(code) THEN ReturnUnwrapped(decodeUplink(code, input))
    ELSE IF DefinesDecoded(code) THEN Ok(code.arg)
    ELSE Ok(Obj(<<>>))

\* the catch block of executeConverterCode: console.error and return null
CatchConverterError(c) == IF c.ok THEN c.value ELSE Null

executeConverterCode(code, data) ==
    CatchConverterError(converterFunction(code, [bytes |-> data, fPort |-> 1]))

\* the engine files: part_002 defines the normalizer and the fallback parsers,
\* part_001 defines parseSensorData and executeConverterCode only
Engines == {"part_001", "part_002"}

HelpersDefined(eng) == eng = "part_002"

\* the result object parseSensorData starts from
InitialResult(data) ==
    [sensorType |-> "Unknown",
     measurements |-> <<>>,
     metadata |-> [dataLength |-> Len(data), format |-> "raw",
                   parseSuccess |-> FALSE, errors |-> <<>>]]

\* the fallback to the standard parsers
StandardParsing(eng, data) ==
    LET sensorType == detectSensorType(data)
        measurements ==
            CASE sensorType = "FEBR-Environmental" -> parseEnvironmentalSensor(data)
              [] sensorType = "FEBR-Utility" -> parseUtilitySensor(data)
              [] OTHER -> parseUnknownSensor(data)
    IN  IF ~HelpersDefined(eng) THEN Throw("detectSensorType is not defined")
        ELSE Ok([sensorType |-> sensorType,
                 measurements |-> measurements,
                 metadata |-> [dataLength |-> Len(data), format |-> "raw",
                               parseSuccess |-> Len(measurements) > 0, errors |-> <<>>]])

\* the template string `Parse error: ${error.message}`
ParseErrorText(message) == [t |-> "string", prefix |-> "Parse error: ", message |-> message]

\* the blueprint return without result.metadata.parseSuccess = true
BlueprintResult_NoFlag(data, converted) ==
    IF ~converted.ok THEN converted
    ELSE Ok([InitialResult(data) EXCEPT
               !.measurements = converted.value,
               !.metadata.format = "blueprint"])

\* result.measurements = convertDecodedToMeasurements(decoded) and the blueprint return
BlueprintResult(data, converted) ==
    IF ~converted.ok THEN converted
    ELSE Ok([InitialResult(data) EXCEPT
               !.measurements = converted.value,
               !.metadata.parseSuccess = TRUE,
               !.metadata.format = "blueprint"])

\* if (decoded) { ... return result } and the fall-through to the standard parsers
AfterConverter(eng, data, decoded) ==
    IF Truthy(decoded)
    THEN IF ~HelpersDefined(eng) THEN Throw("convertDecodedToMeasurements is not defined")
         ELSE BlueprintResult(data, convertDecodedToMeasurements(decoded))
    ELSE StandardParsing(eng, data)

\* the try block of parseSensorData
TryBlock(eng, data, code) ==
    IF code # NoCode
    THEN AfterConverter(eng, data, executeConverterCode(code, data))
    ELSE StandardParsing(eng, data)

\* parseSensorData without its catch block: the completion of the try block as it is
CatchParseError_Rethrow(data, c) == c

\* the catch block of parseSensorData
CatchParseError(data, c) ==
    IF c.ok THEN c
    ELSE Ok([InitialResult(data) EXCEPT !.metadata.errors = <<ParseErrorText(c.error)>>])

\* parseSensorData(rawData, converterCode): its completion
parseSensorData(eng, data, code) == CatchParseError(data, TryBlock(eng, data, code))

\* what decodeUplink handed back to the generated function, when it was called and returned
NoReturn == [t |-> "no return"]

ReturnedValue(r) == IF r.ok THEN r.value ELSE NoReturn

decodeUplinkReturn(code, data) ==
    IF code # NoCode /\ Compiles(code) /\ ~LoadThrows(code) /\ DefinesDecodeUplink(code)
    THEN ReturnedValue(decodeUplink(code, [bytes |-> data, fPort |-> 1]))
    ELSE NoReturn

-----------------------------------------------------------------------------
(* Hyperion decoder: the byte cursor *)

\* an unsigned number wider than 31 bits (beyond the integers of the tools), as its
\* 16-bit words, most significant first
Wide(words) == [t |-> "number", words |-> words]

\* dataView.getUint8(offset)
getUint8(dataBytes, offset) == dataBytes[offset + 1]

\* the signed reading of a byte
SignedByte(b) == IF b >= 128 THEN b - 256 ELSE b

getInt8(dataBytes, offset) == Num(SignedByte(getUint8(dataBytes, offset)))

getInt16(dataBytes, offset, littleEndian) ==
    LET hi == getUint8(dataBytes, IF littleEndian THEN offset + 1 ELSE offset)
        lo == getUint8(dataBytes, IF littleEndian THEN offset ELSE offset + 1)
    IN  Num(SignedByte(hi) * 256 + lo)

getInt32(dataBytes, offset, littleEndian) ==
    LET b(k) == getUint8(dataBytes, IF littleEndian THEN offset + 3 - k ELSE offset + k)
    IN  Num(SignedByte(b(0)) * 16777216 + b(1) * 65536 + b(2) * 256 + b(3))

getUint32(dataBytes, offset, littleEndian) ==
    LET b(k) == getUint8(dataBytes, IF littleEndian THEN offset + 3 - k ELSE offset + k)
    IN  Wide(<<b(0) * 256 + b(1), b(2) * 256 + b(3)>>)

\* a call of a DataView getter: the offset it is given and the bytes it reads
View(offset, width) == [offset |-> offset, width |-> width]

\* The fetch helpers close over index and dataBytes; each returns the advanced
\* index, the value it hands back and the DataView calls it made.
fetchUint32(h, littleEndian) ==
    [index |-> h.index + 4,
     value |-> IF h.index + 4 > Len(h.dataBytes) THEN Num(0)
               ELSE getUint32(h.dataBytes, h.index, littleEndian),
     views |-> IF h.index + 4 > Len(h.dataBytes) THEN {} ELSE {View(h.index, 4)}]

\* carries of a number given by four base-65536 digits that may exceed 65535; a
\* fifth leading digit appears when the value reaches 2^64
Normalise(ws) ==
    LET d4 == ws[4]
        d3 == ws[3] + (d4 \div 65536)
        d2 == ws[2] + (d3 \div 65536)
        d1 == ws[1] + (d2 \div 65536)
    IN  (IF d1 >= 65536 THEN <<d1 \div 65536>> ELSE <<>>)
        \o <<d1 % 65536, d2 % 65536, d3 % 65536, d4 % 65536>>

\* the number of binary digits of a 16-bit word
BitLen(w) == CHOOSE n \in 0..16 : w < 2 ^ n /\ (n = 0 \/ w >= 2 ^ (n - 1))

\* the Number (IEEE 754 double, 53 significant bits, round to nearest, ties to even)
\* that an arithmetic result below 2^64 becomes
RoundToDouble(ws) ==
    LET s == BitLen(ws[1]) - 5
        q == ws[4] \div (2 ^ s)
        r == ws[4] % (2 ^ s)
    IN  IF s <= 0 THEN ws
        ELSE IF r > 2 ^ (s - 1) \/ (r = 2 ^ (s - 1) /\ q % 2 = 1)
        THEN Normalise(<<ws[1], ws[2], ws[3], (q + 1) * (2 ^ s)>>)
        ELSE <<ws[1], ws[2], ws[3], q * (2 ^ s)>>

fetchUint64(h, littleEndian) ==
    LET left == getUint32(h.dataBytes, h.index, littleEndian)
        right == getUint32(h.dataBytes, h.index + 4, littleEndian)
    IN  [index |-> h.index + 8,
         value |-> IF h.index + 8 > Len(h.dataBytes) THEN Num(0)
                   ELSE IF littleEndian THEN Wide(RoundToDouble(right.words \o left.words))
                   ELSE Wide(RoundToDouble(left.words \o right.words)),
         views |-> IF h.index + 8 > Len(h.dataBytes) THEN {}
                   ELSE {View(h.index, 4), View(h.index + 4, 4)}]

\* fetchUint64 of the legacy converter: no bounds test, and Math.pow(32, 2) = 1024
\* where the other copies have Math.pow(2, 32)
fetchUint64Legacy(h, littleEndian) ==
    LET left == getUint32(h.dataBytes, h.index, littleEndian)
        right == getUint32(h.dataBytes, h.index + 4, littleEndian)
    IN  [index |-> h.index + 8,
         value |-> IF littleEndian
                   THEN Wide(Normalise(<<0, 0, right.words[1] * 1024 + left.words[1],
                                         right.words[2] * 1024 + left.words[2]>>))
                   ELSE Wide(Normalise(<<0, 0, left.words[1] * 1024 + right.words[1],
                                         left.words[2] * 1024 + right.words[2]>>))]

\* fetchSint8 without its bounds test
fetchSint8_Unguarded(h, littleEndian) ==
    [index |-> h.index + 1,
     value |-> IF h.index + 1 > Len(h.dataBytes) THEN Undefined
               ELSE getInt8(h.dataBytes, h.index),
     views |-> {View(h.index, 1)}]

fetchSint8(h, littleEndian) ==
    [index |-> h.index + 1,
     value |-> IF h.index + 1 > Len(h.dataBytes) THEN Num(0)
               ELSE getInt8(h.dataBytes, h.index),
     views |-> IF h.index + 1 > Len(h.dataBytes) THEN {} ELSE {View(h.index, 1)}]

\* fetchSint16 with index += 2 moved behind the bounds test
fetchSint16_TestFirst(h, littleEndian) ==
    IF h.index + 2 > Len(h.dataBytes)
    THEN [index |-> h.index, value |-> Num(0), views |-> {}]
    ELSE [index |-> h.index + 2, value |-> getInt16(h.dataBytes, h.index, littleEndian),
          views |-> {View(h.index, 2)}]

fetchSint16(h, littleEndian) ==
    [index |-> h.index + 2,
     value |-> IF h.index + 2 > Len(h.dataBytes) THEN Num(0)
               ELSE getInt16(h.dataBytes, h.index, littleEndian),
     views |-> IF h.index + 2 > Len(h.dataBytes) THEN {} ELSE {View(h.index, 2)}]

fetchSint32(h, littleEndian) ==
    [index |-> h.index + 4,
     value |-> IF h.index + 4 > Len(h.dataBytes) THEN Num(0)
               ELSE getInt32(h.dataBytes, h.index, littleEndian),
     views |-> IF h.index + 4 > Len(h.dataBytes) THEN {} ELSE {View(h.index, 4)}]

\* One statement of a branch of decode: result.key = fetch(le) / div, or index += n
Stmt(op, key, le, div) == [op |-> op, key |-> key, le |-> le, div |-> div]

Skip(n) == [op |-> "skip", n |-> n]

\* index = n
Seek(n) == [op |-> "seek", n |-> n]

\* result.key = value with no fetch
Assign(key, value) == [op |-> "assign", key |-> key, value |-> value]

\* the byte width of the field a statement reads
Width(op) ==
    CASE op = "Uint32" -> 4 [] op = "Uint64" -> 8 [] op = "Sint8" -> 1
      [] op = "Sint16" -> 2 [] op = "Sint32" -> 4

U64s(keys, le) == [i \in 1..Len(keys) |-> Stmt("Uint64", keys[i], le, 1)]

S32s(keys, le, div) == [i \in 1..Len(keys) |-> Stmt("Sint32", keys[i], le, div)]

S8s(keys, le, div) == [i \in 1..Len(keys) |-> Stmt("Sint8", keys[i], le, div)]

\* the tariff-meter layout (ver_min 1 with status 1, and payload_profile 4)
TariffLayout ==
    << Stmt("Uint32", "index_val", TRUE, 1) >>
    \o U64s(<<"epoch", "epoch_old", "e_t1_a_i", "e_t2_a_i", "e_t1_a_e", "e_t2_a_e",
              "e_t1_r_i", "e_t2_r_i", "e_t1_r_e", "e_t2_r_e">>, TRUE)
    \o S32s(<<"i_l1", "i_l2", "i_l3", "i_l4", "i_l123", "p_l1_a", "p_l2_a", "p_l3_a",
              "p_l123_a", "p_l123_a_avg">>, TRUE, 1)
    \o S32s(<<"u_l1", "u_l2", "u_l3">>, TRUE, 10)
    \o << Stmt("Sint16", "f", TRUE, 10), Skip(16) >>
    \o S8s(<<"pf_l1", "pf_l2", "pf_l3">>, TRUE, 10)

PowerCurrent ==
    S32s(<<"p_l1_a", "p_l2_a", "p_l3_a", "p_l123_a", "i_l1", "i_l2", "i_l3", "i_l123">>, FALSE, 1)

EnergyTotals == U64s(<<"e_ta_a_i", "e_ta_a_e", "e_ta_r_i", "e_ta_r_e">>, FALSE)

PowerFactorsFrequency ==
    S8s(<<"pf_l1", "pf_l2", "pf_l3">>, FALSE, 100) \o << Stmt("Sint16", "f", FALSE, 10) >>

\* the statements decode runs after the header, chosen by ver_min, status,
\* payload length and payload_profile
HyperionLayout(dataBytes) ==
    LET ver_min == dataBytes[2]
        status == dataBytes[4]
        payload_profile == At(dataBytes, 16)
    IN  IF ver_min < 3
        THEN IF ver_min = 1
             THEN IF status = 1 /\ Len(dataBytes) >= 140 THEN TariffLayout
                  ELSE IF status = 2 THEN U64s(<<"e_ta_a_i", "e_ta_a_e">>, FALSE)
                  ELSE <<>>
             ELSE IF ver_min = 2
             THEN IF status = 1
                  THEN PowerCurrent \o S32s(<<"u_l1", "u_l2", "u_l3">>, FALSE, 10)
                       \o EnergyTotals \o PowerFactorsFrequency
                       \o << Stmt("Sint32", "pwr_fail", FALSE, 10) >>
                  ELSE IF status = 2 THEN PowerCurrent
                  ELSE <<>>
             ELSE <<>>
        ELSE IF status # 0 THEN <<>>
        ELSE CASE payload_profile = Num(0) ->
                    PowerCurrent
                    \o S32s(<<"u_l1", "u_l2", "u_l3", "u_l12", "u_l23", "u_l31">>, FALSE, 10)
                    \o EnergyTotals \o PowerFactorsFrequency
                    \o << Stmt("Uint32", "pwr_fail", FALSE, 1) >>
               [] payload_profile = Num(1) ->
                    S32s(<<"u_l1", "u_l2", "u_l3", "u_l12", "u_l23", "u_l31">>, FALSE, 10)
                    \o S32s(<<"i_l1", "i_l2", "i_l3", "i_l123">>, FALSE, 1)
                    \o PowerFactorsFrequency
               [] payload_profile = Num(2) -> PowerCurrent \o PowerFactorsFrequency
               [] payload_profile = Num(3) -> EnergyTotals
               [] payload_profile = Num(4) -> TariffLayout
               [] OTHER -> <<>>

\* the unit the copy in febris_universal.js stores beside a field
UnitOf(key) ==
    CASE key \in {"e_t1_a_i", "e_t2_a_i", "e_t1_a_e", "e_t2_a_e", "e_t1_r_i", "e_t2_r_i",
                  "e_t1_r_e", "e_t2_r_e", "e_ta_a_i", "e_ta_a_e", "e_ta_r_i", "e_ta_r_e"} -> "Wh"
      [] key \in {"i_l1", "i_l2", "i_l3", "i_l4", "i_l123"} -> "mA"
      [] key \in {"p_l1_a", "p_l2_a", "p_l3_a", "p_l123_a", "p_l123_a_avg"} -> "W"
      [] key \in {"u_l1", "u_l2", "u_l3", "u_l12", "u_l23", "u_l31"} -> "V"
      [] key = "f" -> "Hz"
      [] OTHER -> ""

\* result.key = fetch(le) / div; result.key_unit = unit;
RECURSIVE Annotated(_)
Annotated(stmts) ==
    IF stmts = <<>> THEN <<>>
    ELSE LET s == Head(stmts) IN
         << s >>
         \o (IF s.op # "skip" /\ UnitOf(s.key) # ""
             THEN << Assign(s.key \o "_unit", Str(UnitOf(s.key))) >> ELSE <<>>)
         \o Annotated(Tail(stmts))

\* the statements the copy of decode in febris_universal.js runs after the header:
\* those of decode with the units, and for ver_min >= 3 a branch for status 2 and
\* one for status 1 in front of the test of status
UniversalLayout(dataBytes) ==
    LET ver_min == dataBytes[2]
        status == dataBytes[4]
    IN  IF ver_min < 3 THEN Annotated(HyperionLayout(dataBytes))
        ELSE IF status = 2 THEN Annotated(U64s(<<"e_ta_a_i", "e_ta_a_e">>, FALSE))
        ELSE IF status = 1
        THEN Annotated(<< Stmt("Sint32", "p_l123_a", TRUE, 1) >>
                       \o U64s(<<"epoch", "epoch_old", "e_t1_a_i", "e_t2_a_i", "e_t1_a_e",
                                 "e_t2_a_e">>, TRUE)
                       \o << Stmt("Sint32", "i_l123", TRUE, 1) >>)
             \o << Seek(84) >>
             \o Annotated(<< Stmt("Uint64", "e_ta_a_i", TRUE, 1) >>)
        ELSE Annotated(HyperionLayout(dataBytes))

\* "v" + (a - 48) + "." + (b - 48) + "." + (c - 48)
VersionString(a, b, c) == [t |-> "string", version |-> <<a - 48, b - 48, c - 48>>]

\* the header part of decode: everything before the branch on ver_min
HyperionHeader(dataBytes) ==
    << <<"deviceType", Str("hyperion")>>,
       <<"uplink_counter", At(dataBytes, 2)>>,
       <<"status", At(dataBytes, 3)>>,
       <<"serialNumber", StrC(ToHex2(dataBytes[5]) \o ToHex2(dataBytes[6])
                              \o ToHex2(dataBytes[7]) \o ToHex2(dataBytes[8]))>> >>
    \o (IF Len(dataBytes) > 14
        THEN << <<"appVer", VersionString(dataBytes[9], dataBytes[10], dataBytes[11])>>,
                <<"midVer", VersionString(dataBytes[13], dataBytes[14], dataBytes[15])>> >>
        ELSE <<>>)
    \o << <<"version_major", At(dataBytes, 0)>>,
          <<"version_minor", At(dataBytes, 1)>> >>

\* result.key = value: a repeated key overwrites in place
SetField(entries, key, value) ==
    IF \E i \in 1..Len(entries) : entries[i][1] = key
    THEN [i \in 1..Len(entries) |-> IF entries[i][1] = key THEN <<key, value>> ELSE entries[i]]
    ELSE Append(entries, <<key, value>>)

\* several assignments result.key = value in a row
RECURSIVE SetFields(_, _)
SetFields(entries, updates) ==
    IF updates = <<>> THEN entries
    ELSE SetFields(SetField(entries, updates[1][1], updates[1][2]), Tail(updates))

\* the fetch helper a statement calls
Fetch(h, s) ==
    CASE s.op = "Uint32" -> fetchUint32(h, s.le)
      [] s.op = "Uint64" -> fetchUint64(h, s.le)
      [] s.op = "Sint8" -> fetchSint8(h, s.le)
      [] s.op = "Sint16" -> fetchSint16(h, s.le)
      [] s.op = "Sint32" -> fetchSint32(h, s.le)

-----------------------------------------------------------------------------
(* Inputs *)

\* device messages; the payloads of the stream are their prefixes
Samples ==
    << \* the test payload of the Febris TH unit
       <<17, 50, 33, 24, 224, 4, 239, 50, 0, 0, 0, 0, 0, 0, 5, 4, 127, 1, 2, 3>>,
       \* header 0x11 0x32, battery 0x0C1C, temperature raw 1000, humidity raw 0x6401
       <<17, 50, 7, 12, 28, 3, 232, 100, 1, 4, 210, 0, 0, 0, 2, 0, 0, 0, 0, 0>>,
       \* a Juno TH message: minor version 2, product version 3
       <<33, 35, 5, 12, 28, 148, 21, 4, 210, 55, 1, 0, 1, 0, 7, 17, 34, 51, 68, 85>>,
       \* the FCA84A09 0000000A message of the environmental sensor
       <<252, 168, 74, 9, 0, 0, 0, 10, 0, 0, 0, 0, 0, 0, 0, 0, 0, 0, 0, 0>> >>

Messages == [sample : 1..Len(Samples), len : 1..MaxLen]

Payload(m) == SubSeq(Samples[m.sample], 1, m.len)

\* the stream: each message grows byte by byte, then the next message starts
NextMsg(m) ==
    IF m.len < MaxLen THEN [m EXCEPT !.len = m.len + 1]
    ELSE [sample |-> (m.sample % Len(Samples)) + 1, len |-> 1]

\* what a synthetic decodeUplink returns
ReturnValues ==
    { Num(42), Num(0), Null, Undefined, StrC(<<"o", "k">>),
      Obj(<< <<"temperature", Num(21)>> >>),
      Obj(<< <<"data", Obj(<< <<"alarm", Symbol>> >>)>> >>),
      Obj(<< <<"data", Null>>, <<"warnings", Arr(<<>>)>>,
             <<"errors", Arr(<<Str("sensor fault")>>)>> >>),
      Obj(<< <<"data", Obj(<< <<"humidity", Num(40)>> >>)>>,
             <<"warnings", Arr(<<Str("dew point out of range")>>)>>,
             <<"errors", Arr(<<>>)>> >>) }

Codes ==
    { NoCode }
    \cup { [src |-> s] : s \in {"decoders/febris_th.js", "febris_th (engine copy)",
                                 "juno_th.js:5-75", "decoders/juno_th.js",
                                 "syntax error", "throw", "loop", "empty"} }
    \cup { Returning(v) : v \in ReturnValues }
    \cup { DecodedVar(Obj(<< <<"up_cnt", Num(3)>> >>)) }

\* before parseSensorData has returned
NoResult == [t |-> "no result"]

\* property names and values of the records handed to the normalizer
TestKeys ==
    { "temperature", "Temperature", "internal_temperature", "temperatureMaxAlarm",
      "humidity", "wall_humidity", "battery_voltage", "voltage_battery",
      "Battery_Voltage", "battery", "dew_point", "dew_point_min",
      "dew_point_temperature", "up_cnt", "co2-ppm", "alarm", "networkBaseType" }

TestValues ==
    { Num(21), Frac(3100, 1000), NaN, Str("ALARM"), Bool(TRUE), Null, Undefined,
      Val(Num(56), "%"), Val(Frac(3100, 1000), "mV"),
      ValDesc(Num(56), "%RH", "Relative Humidity"),
      Obj(<< <<"temperatureMaxAlarm", Bool(FALSE)>> >>) }

\* the records the real units hand over for the payloads of the stream
UnitRecords ==
    { executeConverterCode([src |-> s], Payload(m)) :
        s \in {"decoders/febris_th.js", "febris_th (engine copy)", "juno_th.js:5-75"},
        m \in Messages }

\* the payload of scenario A: header 0x11 0x32, battery voltage 0x0C 0x1C, one value
\* in every other byte
ScenarioAPayload(fill, len) ==
    [i \in 1..len |-> CASE i = 1 -> 17
                        [] i = 2 -> 50
                        [] i = 4 -> 12
                        [] i = 5 -> 28
                        [] OTHER -> fill]

\* the Febris decoders of the repository, each applied to a payload on port 1
FebrisVariants ==
    { "decoders/febris_th.js", "febris_th (engine copy)", "decoders/febris_universal.js",
      "part_000 decodeUplink" }

FebrisData(variant, bytes) ==
    LET input == [bytes |-> bytes, fPort |-> 1]
    IN  CASE variant = "decoders/febris_th.js" ->
               Get(FebrisTH_decodeUplink(input).value, "data")
          [] variant = "febris_th (engine copy)" ->
               Get(FebrisTHv1_decodeUplink(input).value, "data")
          [] variant = "decoders/febris_universal.js" ->
               Get(FebrisUniversal_decodeUplink(input).value, "data")
          [] variant = "part_000 decodeUplink" ->
               Get(FebrisOriginal_decodeUplink(input).value, "data")

\* the records the Febris decoders hand over for the payloads of scenario A
ScenarioARecords ==
    { FebrisData(variant, ScenarioAPayload(fill, len)) :
        variant \in FebrisVariants, fill \in {0, 1, 200}, len \in {17, 24} }

DecodedRecords ==
    { Obj(<< <<k, v>> >>) : k \in TestKeys, v \in TestValues } \cup UnitRecords
    \cup ScenarioARecords

NormIdle == [pc |-> "idle"]

HypIdle == [pc |-> "idle"]

CodecIdle == [pc |-> "idle"]

-----------------------------------------------------------------------------
(* The caller's stream through parseSensorData *)

engineVars == <<pc, engine, rawData, converterCode, unitResult, result, spin, streamAt>>

\* the engine at rest, for the specifications of the other entry points
EngineIdle ==
    /\ pc = "idle"
    /\ engine = "part_002"
    /\ converterCode = NoCode
    /\ streamAt = [sample |-> 1, len |-> 1]
    /\ rawData = Payload(streamAt)
    /\ unitResult = NoReturn
    /\ result = NoResult
    /\ spin = FALSE

Init ==
    /\ pc = "idle"
    /\ engine \in Engines
    /\ converterCode \in Codes
    /\ streamAt \in Messages
    /\ rawData = Payload(streamAt)
    /\ unitResult = NoReturn
    /\ result = NoResult
    /\ spin = FALSE
    /\ norm = NormIdle
    /\ hyp = HypIdle
    /\ codec = CodecIdle

\* the call hands its result to the caller, or its exception ends the caller's loop
Completes(c) ==
    /\ pc' = IF c.ok THEN "returned" ELSE "aborted"
    /\ result' = IF c.ok THEN c.value ELSE NoResult

\* the caller invokes parseSensorData(rawData, converterCode); the call runs to its
\* return, to an escaping exception, or into a unit that keeps the thread
Call ==
    /\ pc = "idle"
    /\ IF converterCode # NoCode /\ ~Halts(converterCode)
       THEN /\ pc' = "running"
            /\ UNCHANGED <<unitResult, result>>
       ELSE /\ Completes(parseSensorData(engine, rawData, converterCode))
            /\ unitResult' = decodeUplinkReturn(converterCode, rawData)
    /\ UNCHANGED <<engine, rawData, converterCode, spin, streamAt, norm, hyp, codec>>

\* one more turn of the loop of a unit that never returns
UnitSpins ==
    /\ pc = "running"
    /\ spin' = ~spin
    /\ UNCHANGED <<pc, engine, rawData, converterCode, unitResult, result, streamAt, norm, hyp,
                   codec>>

\* the caller takes the next payload of its stream
NextPayload ==
    /\ pc = "returned"
    /\ streamAt' = NextMsg(streamAt)
    /\ rawData' = Payload(streamAt')
    /\ pc' = "idle"
    /\ unitResult' = NoReturn
    /\ result' = NoResult
    /\ UNCHANGED <<engine, converterCode, spin, norm, hyp, codec>>

Next == Call \/ UnitSpins \/ NextPayload

Spec == Init /\ [][Next]_vars

\* the loop of a running unit keeps the thread and goes on turning; a caller that
\* holds a result goes on to the next payload of its stream
FairSpec == Spec /\ WF_vars(UnitSpins) /\ WF_vars(NextPayload)

-----------------------------------------------------------------------------
(* Calls of the normalizer *)

NormInit ==
    /\ EngineIdle
    /\ hyp = HypIdle
    /\ codec = CodecIdle
    /\ norm \in { [pc |-> "called", decoded |-> d] : d \in DecodedRecords }

Convert ==
    /\ norm.pc = "called"
    /\ norm' = [pc |-> "returned", decoded |-> norm.decoded,
                completion |-> convertDecodedToMeasurements(norm.decoded)]
    /\ UNCHANGED <<engineVars, hyp, codec>>

NormNext == Convert

NormalizerSpec == NormInit /\ [][NormNext]_vars

-----------------------------------------------------------------------------
(* Calls of the Hyperion decode function *)

\* payload lengths around the branch points of decode
HypLens == {0, 15, 16, 17, 20, 50, 114, 139, 140, 174}

\* a Hyperion uplink: version bytes, counter, status, profile byte, patterned rest
HypPayload(len, ver_min, status, profile, fill) ==
    [i \in 1..len |->
        CASE i = 1 -> 1
          [] i = 2 -> ver_min
          [] i = 3 -> 7
          [] i = 4 -> status
          [] i = 17 -> profile
          [] OTHER -> (fill + 3 * i) % 256]

HyperionPayloads ==
    { HypPayload(len, ver_min, status, profile, fill) :
        len \in HypLens, ver_min \in {1, 2, 3}, status \in {0, 1, 2},
        profile \in {0, 1, 2, 3, 4, 9}, fill \in {48, 240} }

\* an invocation that was called and has not run yet: the copy of decode, its
\* argument (null, or an array of bytes), var index, var result, the statements it
\* still has to run, and the DataView calls it made
CalledWith(copy, given, d) ==
    [pc |-> "called", copy |-> copy, given |-> given, dataBytes |-> d, index |-> 0,
     result |-> <<>>, todo |-> <<>>, oob |-> FALSE, viewed |-> {}]

Called(d) == CalledWith("Hyperion.js", "array", d)

\* { error: ..., raw_length: dataBytes ? dataBytes.length : 0 }
TooShort(h) ==
    << <<"error", Str("Payload zu kurz (min. 16 Bytes)")>>,
       <<"raw_length", Num(IF h.given = "null" THEN 0 ELSE Len(h.dataBytes))>> >>

HypInit ==
    /\ EngineIdle
    /\ norm = NormIdle
    /\ codec = CodecIdle
    /\ hyp \in { Called(d) : d \in HyperionPayloads }

\* decode up to the first fetch: the length guard, var result = {}, var index = 0,
\* the header, the branch taken
Entered_ResultKept(h) ==
    LET d == h.dataBytes
        kept == SetFields(h.result, HyperionHeader(d))
    IN  IF h.given = "null" \/ Len(d) < 16
        THEN [h EXCEPT !.pc = "done", !.result = TooShort(h)]
        ELSE IF d[2] < 3
        THEN [h EXCEPT !.pc = "running", !.index = 16,
                       !.result = kept, !.todo = HyperionLayout(d)]
        ELSE IF d[4] # 0
        THEN [h EXCEPT !.pc = "running", !.index = 0, !.result = kept, !.todo = <<>>]
        ELSE [h EXCEPT !.pc = "running", !.index = 17,
                       !.result = SetField(kept, "payload_profile", At(d, 16)),
                       !.todo = HyperionLayout(d)]

Entered(h) ==
    LET d == h.dataBytes IN
    IF h.given = "null" \/ Len(d) < 16
    THEN [h EXCEPT !.pc = "done", !.result = TooShort(h)]
    ELSE IF d[2] < 3
    THEN [h EXCEPT !.pc = "running", !.index = 16,
                   !.result = HyperionHeader(d), !.todo = HyperionLayout(d)]
    ELSE IF d[4] # 0
    THEN [h EXCEPT !.pc = "running", !.index = 0,
                   !.result = HyperionHeader(d), !.todo = <<>>]
    ELSE [h EXCEPT !.pc = "running", !.index = 17,
                   !.result = Append(HyperionHeader(d), <<"payload_profile", At(d, 16)>>),
                   !.todo = HyperionLayout(d)]

\* the copy of decode in febris_universal.js up to the first fetch
UniversalEntered(h) ==
    LET d == h.dataBytes IN
    IF h.given = "null" \/ Len(d) < 16
    THEN [h EXCEPT !.pc = "done", !.result = TooShort(h)]
    ELSE IF d[2] < 3 \/ d[4] \in {1, 2}
    THEN [h EXCEPT !.pc = "running", !.index = 16,
                   !.result = HyperionHeader(d), !.todo = UniversalLayout(d)]
    ELSE IF d[4] # 0
    THEN [h EXCEPT !.pc = "running", !.index = 0,
                   !.result = HyperionHeader(d), !.todo = <<>>]
    ELSE [h EXCEPT !.pc = "running", !.index = 17,
                   !.result = Append(HyperionHeader(d), <<"payload_profile", At(d, 16)>>),
                   !.todo = UniversalLayout(d)]

\* a DataView getter throws a RangeError when offset + width exceeds the buffer
InBuffer(h, view) == view.offset >= 0 /\ view.offset + view.width <= Len(h.dataBytes)

\* the next statement of the branch: a fetch stored under its key, a skip, a jump
\* of index, or a plain assignment
Stepped(h) ==
    LET s == Head(h.todo) IN
    IF s.op = "skip"
    THEN [h EXCEPT !.index = h.index + s.n, !.todo = Tail(h.todo)]
    ELSE IF s.op = "seek"
    THEN [h EXCEPT !.index = s.n, !.todo = Tail(h.todo)]
    ELSE IF s.op = "assign"
    THEN [h EXCEPT !.result = SetField(h.result, s.key, s.value), !.todo = Tail(h.todo)]
    ELSE LET f == Fetch(h, s) IN
         IF \E view \in f.views : ~InBuffer(h, view)
         THEN [h EXCEPT !.pc = "thrown", !.index = f.index,
                        !.viewed = h.viewed \cup f.views]
         ELSE [h EXCEPT
                 !.index = f.index,
                 !.result = SetField(h.result, s.key,
                                     IF s.div = 1 THEN f.value ELSE DivBy(f.value, s.div)),
                 !.todo = Tail(h.todo),
                 !.oob = h.oob \/ h.index + Width(s.op) > Len(h.dataBytes),
                 !.viewed = h.viewed \cup f.views]

HypEnter ==
    /\ hyp.pc = "called"
    /\ hyp' = IF hyp.copy = "febris_universal.js" THEN UniversalEntered(hyp)
              ELSE Entered(hyp)
    /\ UNCHANGED <<engineVars, norm, codec>>

HypStep ==
    /\ hyp.pc = "running"
    /\ hyp.todo # <<>>
    /\ hyp' = Stepped(hyp)
    /\ UNCHANGED <<engineVars, norm, codec>>

\* return result
HypReturn ==
    /\ hyp.pc = "running"
    /\ hyp.todo = <<>>
    /\ hyp' = [hyp EXCEPT !.pc = "done"]
    /\ UNCHANGED <<engineVars, norm, codec>>

HypNext == HypEnter \/ HypStep \/ HypReturn

HyperionSpec == HypInit /\ [][HypNext]_vars

\* decode and its copy side by side, called with null or with an array of bytes
HyperionCopies == {"Hyperion.js", "febris_universal.js"}

CopyLens == {0, 15, 16, 17, 20, 50, 84, 91, 92, 174}

CopyPayloads ==
    { HypPayload(len, ver_min, status, profile, 240) :
        len \in CopyLens, ver_min \in {1, 2, 3}, status \in {0, 1, 2, 3},
        profile \in {0, 3, 4, 9} }

CopiesInit ==
    /\ EngineIdle
    /\ norm = NormIdle
    /\ codec = CodecIdle
    /\ hyp \in { CalledWith(copy, "array", d) : copy \in HyperionCopies, d \in CopyPayloads }
              \cup { CalledWith(copy, "null", <<>>) : copy \in HyperionCopies }

CopiesSpec == CopiesInit /\ [][HypNext]_vars

-----------------------------------------------------------------------------
(* Two invocations of decode, repeated and interleaved *)

\* the most invocations one behaviour starts after the first two
MaxAgain == 1

\* the variables one invocation of decode owns: its argument, var result, var index,
\* and the statements it still has to run
Frame(h) ==
    [pc |-> h.pc, copy |-> h.copy, given |-> h.given, dataBytes |-> h.dataBytes,
     index |-> h.index, result |-> h.result, todo |-> h.todo, oob |-> h.oob,
     viewed |-> h.viewed]

\* uplinks of several branches of decode: two profiles of minor version 3, a bad
\* status, the tilt layout of minor version 2, and a payload that is too short
InvocationPayloads ==
    { HypPayload(60, 3, 0, 2, 48), HypPayload(60, 3, 0, 3, 240), HypPayload(20, 3, 1, 0, 48),
      HypPayload(60, 2, 2, 0, 48), HypPayload(15, 3, 0, 0, 48) }

\* the running invocation with another one beside it
Beside(frame, other, again) ==
    [pc |-> frame.pc, copy |-> frame.copy, given |-> frame.given,
     dataBytes |-> frame.dataBytes, index |-> frame.index, result |-> frame.result,
     todo |-> frame.todo, oob |-> frame.oob, viewed |-> frame.viewed,
     parked |-> other, again |-> again]

InvocationsInit ==
    /\ EngineIdle
    /\ norm = NormIdle
    /\ codec = CodecIdle
    /\ hyp \in { Beside(Called(a), Called(b), 0) : a, b \in InvocationPayloads }

\* the other invocation runs on: each invocation keeps its own result and index,
\* which are local variables of decode
HypSwitch_SharedIndex ==
    /\ hyp.parked.pc # "done"
    /\ hyp' = Beside([hyp.parked EXCEPT !.index = hyp.index],
                     Frame(hyp), hyp.again)
    /\ UNCHANGED <<engineVars, norm, codec>>

HypSwitch ==
    /\ hyp.parked.pc # "done"
    /\ hyp' = Beside(hyp.parked, Frame(hyp), hyp.again)
    /\ UNCHANGED <<engineVars, norm, codec>>

\* decode is called once more after it returned; what the earlier invocation left in
\* result and index is still there
HypAgain ==
    /\ hyp.pc = "done"
    /\ hyp.again < MaxAgain
    /\ \E d \in InvocationPayloads :
         hyp' = [hyp EXCEPT !.pc = "called", !.dataBytes = d, !.oob = FALSE,
                            !.viewed = {}, !.again = @ + 1]
    /\ UNCHANGED <<engineVars, norm, codec>>

InvocationsNext == HypEnter \/ HypStep \/ HypReturn \/ HypSwitch \/ HypAgain

InvocationsSpec == InvocationsInit /\ [][InvocationsNext]_vars

-----------------------------------------------------------------------------
(* Calls of the codec functions *)

\* 32-bit words as the four bytes of the wire
Words32 ==
    { <<0, 0, 0, 0>>, <<0, 0, 0, 1>>, <<0, 32, 0, 0>>, <<128, 0, 0, 1>>,
      <<18, 52, 86, 120>>, <<255, 255, 255, 255>> }

\* the copies of fetchUint64 in the repository
Uint64Copies == {"Hyperion.js:27", "Hyperion.js:275", "febris_universal.js:198"}

\* signed values at and between the ends of the range of each bit width
SignedSamples(bitwidth) ==
    CASE bitwidth = 8 -> -128..127
      [] bitwidth = 16 -> {-32768, -32767, -12345, -256, -2, -1, 0, 1, 255, 256, 12345, 32767}
      [] bitwidth = 32 -> {-2147483647 - 1, -2147483647, -305419896, -65536, -2, -1,
                           0, 1, 65535, 65536, 305419896, 2147483647}

\* v mod 2^bitwidth as <<high, low>> words
EncodeSigned(v, bitwidth) ==
    << IF bitwidth > 16 THEN (v \div 65536) % (2 ^ (bitwidth - 16)) ELSE 0,
       IF bitwidth >= 16 THEN v % 65536 ELSE v % (2 ^ bitwidth) >>

\* a call that waits to be made: the function, its arguments, no value yet
CodecCall(fn, args) == [pc |-> "called", fn |-> fn, args |-> args, ret |-> NoReturn]

\* byte 1 of a Febris payload: minor_version in the high nibble, product_version (the
\* feature bits) in the low nibble
FebrisHeaders == { minor * 16 + product : minor \in 1..4, product \in {0, 1, 4, 5} }

\* the fifo size bytes
FifoCounts == {0, 1, 16, 255}

\* a Febris payload: the header byte, the fifo size k at offset 13, one value in every
\* byte behind it
FebrisPayload(header, k, fill, len) ==
    [i \in 1..len |-> CASE i = 1 -> 17
                        [] i = 2 -> header
                        [] i = 14 -> k
                        [] i > 14 -> fill
                        [] OTHER -> 33]

\* the calls of decodeUplink: payloads that end before the fifo size, at it, and behind
\* the last optional field
FebrisCalls ==
    UNION { { CodecCall("decodeUplink",
                        [unit |-> "febris_universal",
                         bytes |-> FebrisPayload(h, k, fill, len), fPort |-> p]) :
                h \in FebrisHeaders, fill \in {0, 120}, len \in {13, 14, 20 + 7 * k},
                p \in {1, 2} } : k \in FifoCounts }

\* an Apollon QTR payload: the feature bits in the low nibble of byte 1, and from
\* offset 2 on every byte holds its own offset
ApollonPayload(features, len) ==
    [i \in 1..len |-> CASE i = 1 -> 18
                        [] i = 2 -> 16 + features
                        [] OTHER -> i - 1]

\* the calls of the Apollon QTR Decoder: every feature bitmask, payloads that end
\* behind the fixed part, inside the optional groups and behind all four of them
ApollonCalls ==
    { CodecCall("Decoder", [unit |-> "apollon-qtr", bytes |-> ApollonPayload(f, len),
                            port |-> p]) :
        f \in 0..15, len \in {9, 20, 36}, p \in {1, 2} }

\* a NYX payload: major_version in byte 0, the feature bits in byte 1, and from offset
\* 2 on every byte holds its own offset or 255
NYXPayload(major, product, fill, len) ==
    [i \in 1..len |-> CASE i = 1 -> 16 + major
                        [] i = 2 -> 16 + product
                        [] i > 11 /\ fill -> 255
                        [] OTHER -> i - 1]

\* the calls of the two NYX decoders: every combination of the lux, IAQ and BME bits,
\* payloads that end inside the fixed part, inside each optional group and behind them
NYXCalls ==
    { CodecCall("NYX.decode", [bytes |-> NYXPayload(major, product, fill, len)]) :
        major \in {0, 1}, product \in 0..7, fill \in BOOLEAN, len \in 9..19 }
    \cup { CodecCall("NYX.decodeUplink",
                     [bytes |-> NYXPayload(major, product, fill, len), fPort |-> p]) :
             major \in {0, 1}, product \in 0..7, fill \in BOOLEAN, len \in 9..19,
             p \in {1, 2} }

\* a Juno TH payload: minor_version and the feature bits in byte 1, and from offset 2
\* on every byte holds its own offset
JunoPayload(minor, product, len) ==
    [i \in 1..len |-> CASE i = 1 -> 17
                        [] i = 2 -> minor * 16 + product
                        [] OTHER -> i - 1]

\* the calls of the Juno TH decodeUplink: every product_version nibble, payloads that
\* end behind the fixed part, inside the optional groups and behind them
JunoCalls ==
    { CodecCall("JunoTH.decodeUplink",
                [bytes |-> JunoPayload(minor, product, len), fPort |-> p]) :
        minor \in {1, 2}, product \in 0..15, len \in {6, 10, 15}, p \in {1, 2} }

\* an Apollon QPP payload: the minor version in the high nibble of byte 1, the status
\* byte at offset 6, and every other byte holds its own offset plus 1
ApollonQppPayload(minor, status, len) ==
    [i \in 1..len |-> CASE i = 1 -> 17
                        [] i = 2 -> 16 * minor + 1
                        [] i = 7 -> status
                        [] OTHER -> i]

\* the calls of the Apollon QPP decode: status bytes of the three branches, minor
\* versions around 2, payloads that end before the status byte, inside the object
\* group and behind it, with and without metadata
ApollonQppCalls ==
    { CodecCall("ApollonQPP.decode",
                [payload |-> ApollonQppPayload(minor, status, len), metadata |-> m]) :
        minor \in {1, 2, 3}, status \in {0, 1, 5, 15, 16, 17, 128, 255},
        len \in {6, 7, 12, 16, 17, 18},
        m \in {Undefined, [t |-> "object", fPort |-> 0], [t |-> "object", fPort |-> 1],
               [t |-> "object", fPort |-> 2]} }

CodecCalls ==
    { CodecCall("fetchUint64", [copy |-> c, dataBytes |-> a \o b, littleEndian |-> le]) :
        c \in Uint64Copies, a \in Words32, b \in Words32, le \in BOOLEAN }
    \cup UNION { { CodecCall("uncomplement", [v |-> v, bitwidth |-> n]) :
                     v \in SignedSamples(n) } : n \in {8, 16, 32} }
    \cup { CodecCall(fn, [v |-> v]) :
             fn \in {"bytesToInt16LE", "bytesToInt16BE"}, v \in SignedSamples(16) }
    \cup { CodecCall("Decoder", [unit |-> "part_000", bytes |-> Payload(m), port |-> p]) :
             m \in Messages, p \in {1, 2} }
    \cup FebrisCalls
    \cup ApollonCalls
    \cup NYXCalls
    \cup JunoCalls
    \cup ApollonQppCalls

CodecInit ==
    /\ EngineIdle
    /\ norm = NormIdle
    /\ hyp = HypIdle
    /\ codec \in CodecCalls

\* index = 0; fetchUint64(littleEndian) over a buffer of two 32-bit words
CallFetchUint64 ==
    /\ codec.pc = "called"
    /\ codec.fn = "fetchUint64"
    /\ codec' = [codec EXCEPT
                   !.pc = "returned",
                   !.ret = IF codec.args.copy = "Hyperion.js:275"
                           THEN fetchUint64Legacy([index |-> 0, dataBytes |-> codec.args.dataBytes],
                                                  codec.args.littleEndian)
                           ELSE fetchUint64([index |-> 0, dataBytes |-> codec.args.dataBytes],
                                            codec.args.littleEndian)]
    /\ UNCHANGED <<engineVars, norm, hyp>>

\* uncomplement(v mod 2^bitwidth, bitwidth)
CallUncomplement ==
    /\ codec.pc = "called"
    /\ codec.fn = "uncomplement"
    /\ codec' = [codec EXCEPT
                   !.pc = "returned",
                   !.ret = uncomplement(EncodeSigned(codec.args.v, codec.args.bitwidth),
                                        codec.args.bitwidth)]
    /\ UNCHANGED <<engineVars, norm, hyp>>

\* bytesToInt16LE(low byte, high byte) of the two bytes encoding v
CallBytesToInt16LE ==
    /\ codec.pc = "called"
    /\ codec.fn = "bytesToInt16LE"
    /\ codec' = [codec EXCEPT
                   !.pc = "returned",
                   !.ret = bytesToInt16LE(codec.args.v % 256, (codec.args.v \div 256) % 256)]
    /\ UNCHANGED <<engineVars, norm, hyp>>

\* bytesToInt16BE(high byte, low byte) of the two bytes encoding v
CallBytesToInt16BE ==
    /\ codec.pc = "called"
    /\ codec.fn = "bytesToInt16BE"
    /\ codec' = [codec EXCEPT
                   !.pc = "returned",
                   !.ret = bytesToInt16BE((codec.args.v \div 256) % 256, codec.args.v % 256)]
    /\ UNCHANGED <<engineVars, norm, hyp>>

\* Decoder(bytes, port) of the Environmental Sensor decoder
CallEnvironmentalDecoder ==
    /\ codec.pc = "called"
    /\ codec.fn = "Decoder"
    /\ codec.args.unit = "part_000"
    /\ codec' = [codec EXCEPT
                   !.pc = "returned",
                   !.ret = EnvironmentalDecoder(codec.args.bytes, codec.args.port)]
    /\ UNCHANGED <<engineVars, norm, hyp>>

\* decodeUplink({bytes, fPort}) of decoders/febris_universal.js
CallFebrisUniversal ==
    /\ codec.pc = "called"
    /\ codec.fn = "decodeUplink"
    /\ codec' = [codec EXCEPT
                   !.pc = "returned",
                   !.ret = FebrisUniversal_decodeUplink(codec.args)]
    /\ UNCHANGED <<engineVars, norm, hyp>>

\* Decoder(bytes, port) of decoders/apollon-qtr.js
CallApollonQtr ==
    /\ codec.pc = "called"
    /\ codec.fn = "Decoder"
    /\ codec.args.unit = "apollon-qtr"
    /\ codec' = [codec EXCEPT
                   !.pc = "returned",
                   !.ret = ApollonQtr_Decoder(codec.args.bytes, codec.args.port)]
    /\ UNCHANGED <<engineVars, norm, hyp>>

\* decode(hex) of decoders/NYX.js
CallNYXDecode ==
    /\ codec.pc = "called"
    /\ codec.fn = "NYX.decode"
    /\ codec' = [codec EXCEPT !.pc = "returned", !.ret = NYX_decode(codec.args.bytes)]
    /\ UNCHANGED <<engineVars, norm, hyp>>

\* decodeUplink({bytes, fPort}) of decoders/NYX.js
CallNYXDecodeUplink ==
    /\ codec.pc = "called"
    /\ codec.fn = "NYX.decodeUplink"
    /\ codec' = [codec EXCEPT !.pc = "returned", !.ret = NYX_decodeUplink(codec.args)]
    /\ UNCHANGED <<engineVars, norm, hyp>>

\* decodeUplink({bytes, fPort}) of decoders/juno_th.js
CallJunoTH ==
    /\ codec.pc = "called"
    /\ codec.fn = "JunoTH.decodeUplink"
    /\ codec' = [codec EXCEPT !.pc = "returned",
                              !.ret = JunoTH_decodeUplink(codec.args).value]
    /\ UNCHANGED <<engineVars, norm, hyp>>

\* decode(payload, metadata) of decoders/apollon-qpp.js
CallApollonQpp ==
    /\ codec.pc = "called"
    /\ codec.fn = "ApollonQPP.decode"
    /\ codec' = [codec EXCEPT
                   !.pc = "returned",
                   !.ret = ApollonQpp_decode(codec.args.payload, codec.args.metadata)]
    /\ UNCHANGED <<engineVars, norm, hyp>>

CodecNext ==
    \/ CallFetchUint64
    \/ CallUncomplement
    \/ CallBytesToInt16LE
    \/ CallBytesToInt16BE
    \/ CallEnvironmentalDecoder
    \/ CallFebrisUniversal
    \/ CallApollonQtr
    \/ CallNYXDecode
    \/ CallNYXDecodeUplink
    \/ CallJunoTH
    \/ CallApollonQpp

CodecSpec == CodecInit /\ [][CodecNext]_vars

-----------------------------------------------------------------------------
(* Properties of the Hyperion byte cursor *)

\* the record decode returned is the failure record: it carries the key 'error'
IsErrorRecord(entries) == \E i \in 1..Len(entries) : entries[i][1] = "error"

\* C1: cursor reads are bounds-checked and fail fast: when a fixed-width read was
\* issued with offset + width beyond the payload length, the whole decode ends in
\* the failure outcome and no field read that way is stored in the returned record.
C1_FailFast ==
    (hyp.pc = "done" /\ hyp.oob) => IsErrorRecord(hyp.result)

\* a 16-byte payload was decoded to a record without 'error' that holds the 0 of a
\* read beyond the payload
C1_Witness ==
    /\ hyp.pc = "done"
    /\ hyp.oob
    /\ Len(hyp.dataBytes) = 16
    /\ ~IsErrorRecord(hyp.result)
    /\ \E i \in 1..Len(hyp.result) : hyp.result[i] = <<"e_ta_a_i", Num(0)>>

\* the bytes a statement of decode is to consume: the widths 1, 2, 4, 8 of the
\* fetch helpers, or the count of an explicit skip
BytesConsumed(s) ==
    CASE s.op = "skip" -> s.n
      [] s.op = "Sint8" -> 1
      [] s.op = "Sint16" -> 2
      [] s.op \in {"Uint32", "Sint32"} -> 4
      [] s.op = "Uint64" -> 8

RECURSIVE TotalConsumed(_)
TotalConsumed(stmts) ==
    IF stmts = <<>> THEN 0 ELSE BytesConsumed(Head(stmts)) + TotalConsumed(Tail(stmts))

\* C15: every cursor read advances the offset by exactly the field's byte width:
\* each fetch or skip moves index by its width, whatever the bytes read and the
\* payload length, so that at the return index is the start offset plus the sum of
\* the widths of the calls made.
C15_AdvanceByWidth ==
    [][HypStep =>
         /\ hyp'.index = hyp.index + BytesConsumed(Head(hyp.todo))
         /\ hyp.todo # <<>>
         /\ hyp'.todo = Tail(hyp.todo)]_vars

\* the tariff layout ran over a 50-byte payload to its end: index went from 17 to
\* far beyond the payload
C15_Witness ==
    /\ hyp.pc = "done"
    /\ Len(hyp.dataBytes) = 50
    /\ hyp.dataBytes[2] = 3
    /\ hyp.dataBytes[17] = 4
    /\ hyp.oob
    /\ hyp.index = 17 + TotalConsumed(TariffLayout)
    /\ hyp.index = 174

-----------------------------------------------------------------------------
(* Properties of the decoding units and of the engine *)

\* the decoding units shipped with the repository
ShippedUnits == {"decoders/febris_th.js", "febris_th (engine copy)", "juno_th.js:5-75"}

\* the bytes of the mandatory fields of a unit: header (2), counter (1), battery
\* voltage (2), internal temperature (1 for Juno TH, 2 for Febris TH), and for
\* Febris TH the further groups up to its declared minimum of 17 bytes
MandatoryLength(code) == IF code.src = "juno_th.js:5-75" THEN 6 ELSE 17

\* the strings of a list property of a unit result, empty when there is no such list
ListOf(res, key) ==
    IF res.t = "object" /\ Get(res, key).t = "array" THEN Get(res, key).items ELSE <<>>

\* a unit result that is a failure: an error is given and no field is decoded
IsUnitFailure(res) ==
    /\ ListOf(res, "errors") # <<>>
    /\ Get(res, "data").t \in {"undefined", "null"}
       \/ (Get(res, "data").t = "object" /\ Get(res, "data").entries = <<>>)

\* C2: every decoding unit, given a payload shorter than the minimum length of its
\* mandatory fields, returns a failure outcome with a descriptive error and no
\* decoded fields at all.
C2_TruncatedPayloadFails ==
    (/\ pc = "returned"
     /\ converterCode.src \in ShippedUnits
     /\ Len(rawData) < MandatoryLength(converterCode))
    => IsUnitFailure(unitResult)

\* the Juno TH unit returned, for a payload of two bytes, a record with the header
\* fields, an undefined counter and a NaN temperature, and no error
C2_Witness ==
    /\ pc = "returned"
    /\ converterCode.src = "juno_th.js:5-75"
    /\ Len(rawData) = 2
    /\ ListOf(unitResult, "errors") = <<>>
    /\ Get(Get(unitResult, "data"), "base_id") = Num(rawData[1] \div 16)
    /\ Get(Get(unitResult, "data"), "up_cnt") = Undefined
    /\ Get(Get(unitResult, "data"), "internal_temperature") = Val(NaN, "°C")

\* the unit handed to the call raised an exception or its source does not compile
UnitFaulted(code, data) ==
    /\ code # NoCode
    /\ \/ ~Compiles(code)
       \/ LoadThrows(code)
       \/ DefinesDecodeUplink(code) /\ Halts(code)
          /\ ~decodeUplink(code, [bytes |-> data, fPort |-> 1]).ok

\* C3: when the decoding unit raises an exception or its source cannot be compiled,
\* the outcome of parseSensorData (of the engine file that holds the whole engine)
\* is a failure: parseSuccess is false and errors is
\* non-empty.
C3_UnitFaultIsFailure ==
    (pc = "returned" /\ engine = "part_002" /\ UnitFaulted(converterCode, rawData))
    => (~result.metadata.parseSuccess /\ result.metadata.errors # <<>>)

\* a call whose unit threw came back as a success with the raw measurement
C3_Witness ==
    /\ pc = "returned"
    /\ engine = "part_002"
    /\ converterCode.src = "throw"
    /\ result.metadata.parseSuccess
    /\ result.metadata.errors = <<>>
    /\ Len(result.measurements) = 1
    /\ result.measurements[1].type = "raw_data"

C5_BoundedExecution ==
    (pc = "running") ~>
        (pc = "returned" /\ ~result.metadata.parseSuccess /\ result.measurements = <<>>)

\* the call is inside a unit whose loop has turned and nothing has been returned
C5_Witness ==
    /\ pc = "running"
    /\ ~Halts(converterCode)
    /\ spin
    /\ result = NoResult

\* C6 (as stated): without converter code, for every non-empty payload the engine
\* returns exactly one measurement whose value is the payload rendered as hex.
C6_RawPassthrough ==
    (pc = "returned" /\ converterCode = NoCode /\ engine = "part_002")
    => /\ Len(result.measurements) = 1
       /\ result.measurements[1].value.t = "string"
       /\ hexStringToBytes(result.measurements[1].value.cs) = rawData

\* C6 (amended): without converter code the engine that defines the fallback parsers
\* never fails; a payload shorter than 12 bytes yields exactly one measurement
\* 'raw_data' whose value is the payload as two lower-case hex digits per byte,
\* separated by spaces; a payload of 17 or more bytes starting with 0x11 yields the
\* three environmental measurements, and every other payload of 12 or more bytes
\* yields the single measurement 'meter_reading' read from bytes 2 and 3.
C6_FallbackByLength ==
    (pc = "returned" /\ converterCode = NoCode /\ engine = "part_002")
    => /\ result.metadata.parseSuccess
       /\ result.metadata.errors = <<>>
       /\ IF Len(rawData) < 12
          THEN /\ Len(result.measurements) = 1
               /\ result.measurements[1].type = "raw_data"
               /\ result.measurements[1].unit = "hex"
               /\ Len(result.measurements[1].value.cs) = 3 * Len(rawData) - 1
               /\ \A i \in 1..Len(rawData) :
                    /\ result.measurements[1].value.cs[3 * i - 2] = HexChars[(rawData[i] \div 16) + 1]
                    /\ result.measurements[1].value.cs[3 * i - 1] = HexChars[(rawData[i] % 16) + 1]
                    /\ i < Len(rawData) => result.measurements[1].value.cs[3 * i] = " "
               /\ hexStringToBytes(result.measurements[1].value.cs) = rawData
          ELSE IF Len(rawData) >= 17 /\ rawData[1] = 17
          THEN /\ Len(result.measurements) = 3
               /\ result.measurements[1].type = "battery_voltage"
               /\ result.measurements[2].type = "internal_temperature"
               /\ result.measurements[3].type = "humidity"
          ELSE /\ Len(result.measurements) = 1
               /\ result.measurements[1].type = "meter_reading"
               /\ result.measurements[1].value = Num(rawData[3] * 256 + rawData[4])

\* a payload below 12 bytes with a byte below 0x10 came back as the raw measurement
C6_Witness ==
    /\ pc = "returned"
    /\ converterCode = NoCode
    /\ engine = "part_002"
    /\ Len(rawData) = 9
    /\ \E i \in 1..Len(rawData) : rawData[i] < 16
    /\ result.sensorType = "Generic-mioty"
    /\ result.measurements[1].type = "raw_data"

C8_UnitMessagesKept ==
    (pc = "returned" /\ engine = "part_002" /\ unitResult # NoReturn)
    => /\ \A i \in 1..Len(ListOf(unitResult, "errors")) :
            \E j \in 1..Len(result.metadata.errors) :
                result.metadata.errors[j] = ListOf(unitResult, "errors")[i]
       /\ \A i \in 1..Len(ListOf(unitResult, "warnings")) :
            \E j \in 1..Len(result.metadata.errors) :
                result.metadata.errors[j] = ListOf(unitResult, "warnings")[i]
       /\ ListOf(unitResult, "errors") # <<>> => ~result.metadata.parseSuccess

\* the Febris TH unit reported its two messages for a short payload and the call
\* came back as a success with no measurement and no error
C8_Witness ==
    /\ pc = "returned"
    /\ engine = "part_002"
    /\ converterCode.src = "decoders/febris_th.js"
    /\ ListOf(unitResult, "errors") = <<Str("Mindestens 17 Bytes erforderlich")>>
    /\ ListOf(unitResult, "warnings") = <<Str("Payload zu kurz")>>
    /\ result.metadata.parseSuccess
    /\ result.metadata.errors = <<>>
    /\ result.measurements = <<>>

-----------------------------------------------------------------------------
(* Properties of the normalizer *)

\* the unit attached {value, unit} or {value, unit, description} to the entry
IsWrapped(v) ==
    /\ v.t = "object"
    /\ \E i \in 1..Len(v.entries) : v.entries[i][1] = "value"
    /\ \E i \in 1..Len(v.entries) : v.entries[i][1] = "unit"

\* the entries of the argument that yield a measurement, in order
MeasuredEntries(decoded) ==
    SelectSeq(Entries(decoded),
              LAMBDA e : e[1] \notin {"networkBaseType", "networkSubType"}
                         /\ e[2] # Undefined)

\* C9: for every record entry to which the unit attached {value, unit} or
\* {value, unit, description}, the measurement produced has exactly that value, that
\* unit and (when given) that description.
C9_WrappedVerbatim ==
    (norm.pc = "returned" /\ norm.completion.ok)
    => \A i \in 1..Len(norm.completion.value) :
         IsWrapped(MeasuredEntries(norm.decoded)[i][2])
         => /\ norm.completion.value[i].value = Get(MeasuredEntries(norm.decoded)[i][2], "value")
            /\ norm.completion.value[i].unit = Get(MeasuredEntries(norm.decoded)[i][2], "unit").s
            /\ Get(MeasuredEntries(norm.decoded)[i][2], "description") # Undefined
               => norm.completion.value[i].description
                    = KeyChars[Get(MeasuredEntries(norm.decoded)[i][2], "description").s]

\* humidity: {value: 56, unit: '%'} came back as '[object Object]' with unit '%RH'
C9_Witness ==
    /\ norm.pc = "returned"
    /\ norm.decoded = Obj(<< <<"humidity", Val(Num(56), "%")>> >>)
    /\ norm.completion.ok
    /\ norm.completion.value[1].value = Str("[object Object]")
    /\ norm.completion.value[1].unit = "%RH"

\* letters and digits: the characters of a word
IsAlnum(c) == c \in Range(LowerAlpha) \cup Range(UpperAlpha) \cup Range(DigitChars)

\* the key with '_' replaced by spaces and the first character of each word in
\* upper case
WordsCapitalised(k) ==
    [j \in 1..Len(k) |->
        IF k[j] = "_" THEN " "
        ELSE IF j = 1 THEN ToUpperCh(k[j])
        ELSE IF ~IsAlnum(k[j-1]) THEN ToUpperCh(k[j])
        ELSE k[j]]

\* the key contains the word, compared as written
Contains(k, word) == \E j \in 0..(Len(k) - Len(word)) : \A n \in 1..Len(word) : k[j + n] = word[n]

\* C10: for an entry with a plain value the unit and description follow the fixed
\* lookup, first match wins: key containing 'temperature' (case-insensitive) ->
\* unit '°C'; key exactly 'humidity' -> '%RH' and 'Relative Humidity'; key containing
\* both 'battery' and 'voltage' -> 'V'; key containing 'dew_point' -> '°C'; every
\* other key -> empty unit and the key with '_' replaced by spaces and each word
\* capitalised.
C10_LookupOrder ==
    (norm.pc = "returned" /\ norm.completion.ok)
    => \A i \in 1..Len(norm.completion.value) :
         ~IsWrapped(MeasuredEntries(norm.decoded)[i][2])
         => /\ norm.completion.value[i].type = MeasuredEntries(norm.decoded)[i][1]
            /\ IF Contains(ToLowerCase(KeyChars[norm.completion.value[i].type]),
                           <<"t","e","m","p","e","r","a","t","u","r","e">>)
               THEN norm.completion.value[i].unit = "°C"
               ELSE IF norm.completion.value[i].type = "humidity"
               THEN /\ norm.completion.value[i].unit = "%RH"
                    /\ norm.completion.value[i].description =
                         <<"R","e","l","a","t","i","v","e"," ","H","u","m","i","d","i","t","y">>
               ELSE IF /\ Contains(KeyChars[norm.completion.value[i].type],
                                   <<"b","a","t","t","e","r","y">>)
                       /\ Contains(KeyChars[norm.completion.value[i].type],
                                   <<"v","o","l","t","a","g","e">>)
               THEN norm.completion.value[i].unit = "V"
               ELSE IF Contains(KeyChars[norm.completion.value[i].type],
                                <<"d","e","w","_","p","o","i","n","t">>)
               THEN norm.completion.value[i].unit = "°C"
               ELSE /\ norm.completion.value[i].unit = ""
                    /\ norm.completion.value[i].description =
                         WordsCapitalised(KeyChars[norm.completion.value[i].type])

\* a plain value under the key 'Temperature', matched case-insensitively, came back
\* with the unit of the first rule
C10_Witness ==
    /\ norm.pc = "returned"
    /\ norm.completion.ok
    /\ Len(norm.completion.value) = 1
    /\ norm.decoded.t = "object"
    /\ ~IsWrapped(norm.decoded.entries[1][2])
    /\ norm.completion.value[1].type = "Temperature"
    /\ norm.completion.value[1].unit = "°C"

\* the positions of the measurements of a key
PositionsOf(ms, key) == { j \in 1..Len(ms) : ms[j].type = key }

\* the entry is on the exclusion list or has the value undefined
IsExcluded(e) == e[1] \in {"networkBaseType", "networkSubType"} \/ e[2] = Undefined

\* C11: routing keys never become measurements: the measurement sequence has no
\* entry for networkBaseType, networkSubType or a key whose value is undefined, and
\* exactly one entry for every other key of the record.
C11_ExclusionList ==
    (norm.pc = "returned" /\ norm.completion.ok)
    => /\ \A i \in 1..Len(norm.decoded.entries) :
            Cardinality(PositionsOf(norm.completion.value, norm.decoded.entries[i][1]))
              = IF IsExcluded(norm.decoded.entries[i]) THEN 0 ELSE 1
       /\ \A j \in 1..Len(norm.completion.value) :
            \E i \in 1..Len(norm.decoded.entries) :
                norm.decoded.entries[i][1] = norm.completion.value[j].type

\* a record with routing keys between measured keys and an undefined value was
\* normalized
C11_Witness ==
    /\ norm.pc = "returned"
    /\ norm.completion.ok
    /\ \E i, j, k \in 1..Len(norm.decoded.entries) :
         /\ i < j /\ j < k
         /\ ~IsExcluded(norm.decoded.entries[i])
         /\ norm.decoded.entries[j][1] = "networkBaseType"
         /\ ~IsExcluded(norm.decoded.entries[k])
    /\ \E i \in 1..Len(norm.decoded.entries) : norm.decoded.entries[i][2] = Undefined
    /\ Len(norm.completion.value) < Len(norm.decoded.entries) - 2

\* C12: the measurement sequence preserves record order: when key a precedes key b
\* in the record, the measurement for a precedes the measurement for b.
C12_OrderPreserved ==
    (norm.pc = "returned" /\ norm.completion.ok)
    => \A a, b \in 1..Len(norm.decoded.entries) :
         (/\ a < b
          /\ ~IsExcluded(norm.decoded.entries[a])
          /\ ~IsExcluded(norm.decoded.entries[b]))
         => \E i, j \in 1..Len(norm.completion.value) :
              /\ i < j
              /\ norm.completion.value[i].type = norm.decoded.entries[a][1]
              /\ norm.completion.value[j].type = norm.decoded.entries[b][1]

\* a record whose keys are not in alphabetical order came back in record order
C12_Witness ==
    /\ norm.pc = "returned"
    /\ norm.completion.ok
    /\ Len(norm.completion.value) >= 7
    /\ norm.completion.value[1].type = "base_id"
    /\ norm.completion.value[5].type = "up_cnt"
    /\ norm.completion.value[6].type = "battery_voltage"

-----------------------------------------------------------------------------
(* Properties of the codec functions *)

\* the 16-bit digits of high * 2^32 + low for the eight bytes of a buffer, the first
\* word being the low one for little-endian and the high one for big-endian
Uint64Digits(b, littleEndian) ==
    IF littleEndian
    THEN <<b[8] * 256 + b[7], b[6] * 256 + b[5], b[4] * 256 + b[3], b[2] * 256 + b[1]>>
    ELSE <<b[1] * 256 + b[2], b[3] * 256 + b[4], b[5] * 256 + b[6], b[7] * 256 + b[8]>>

\* C13: a 64-bit unsigned read over two in-bounds 32-bit words equals
\* low + high * 2^32 (little-endian) or high * 2^32 + low (big-endian), for every
\* pair of words, in every copy of fetchUint64.
C13_Uint64Composition ==
    (codec.pc = "returned" /\ codec.fn = "fetchUint64")
    => codec.ret.value.words = Uint64Digits(codec.args.dataBytes, codec.args.littleEndian)

\* the legacy copy read the big-endian words 1 and 0 as 1024
C13_Witness ==
    /\ codec.pc = "returned"
    /\ codec.fn = "fetchUint64"
    /\ codec.args.copy = "Hyperion.js:275"
    /\ codec.args.dataBytes = <<0, 0, 0, 1, 0, 0, 0, 0>>
    /\ ~codec.args.littleEndian
    /\ codec.ret.value.words = <<0, 0, 0, 1024>>

\* the current copy read eight bytes 0xFF as 2^64
C13_WitnessRounded ==
    /\ codec.pc = "returned"
    /\ codec.fn = "fetchUint64"
    /\ codec.args.copy = "Hyperion.js:27"
    /\ codec.args.dataBytes = <<255, 255, 255, 255, 255, 255, 255, 255>>
    /\ codec.ret.value.words = <<1, 0, 0, 0, 0>>

\* C14: two's-complement round trip: for N in {8, 16, 32} and every signed v of N
\* bits, uncomplement(v mod 2^N, N) = v; likewise bytesToInt16BE and bytesToInt16LE
\* return v for the two bytes encoding a 16-bit signed v.
C14_TwosComplementRoundTrip ==
    (codec.pc = "returned"
     /\ codec.fn \in {"uncomplement", "bytesToInt16LE", "bytesToInt16BE"})
    => codec.ret = codec.args.v

\* uncomplement returned -1 for the 32-bit encoding of -2
C14_Witness ==
    /\ codec.pc = "returned"
    /\ codec.fn = "uncomplement"
    /\ codec.args = [v |-> -2, bitwidth |-> 32]
    /\ codec.ret = -1

\* the round trip of the widths 8 and 16 and of the two byte-pair functions
C14_NarrowRoundTrip ==
    (/\ codec.pc = "returned"
     /\ \/ codec.fn = "uncomplement" /\ codec.args.bitwidth \in {8, 16}
        \/ codec.fn \in {"bytesToInt16LE", "bytesToInt16BE"})
    => codec.ret = codec.args.v

\* the number a record reports under a key, directly or as the value of a
\* {value, unit, description} object
Reported(rec, key) ==
    IF Get(rec, key).t = "object" THEN Get(Get(rec, key), "value") ELSE Get(rec, key)

\* the header fields a record reports are the nibbles of bytes 0 and 1
HeaderFromWire(rec, bytes) ==
    /\ Reported(rec, "base_id") = Num(bytes[1] \div 16)
    /\ Reported(rec, "major_version") = Num(bytes[1] % 16)
    /\ Reported(rec, "minor_version") = Num(bytes[2] \div 16)
    /\ Reported(rec, "product_version") = Num(bytes[2] % 16)

\* C16: header fields are always parsed from the wire: every record a decoder of a
\* header-bearing family returns for a payload has base_id = byte0 div 16,
\* major_version = byte0 mod 16, minor_version = byte1 div 16 and
\* product_version = byte1 mod 16; no decoder reports header fields that are not
\* derived from bytes 0 and 1.
C16_HeaderFromWire ==
    (/\ codec.pc = "returned"
     /\ codec.fn = "Decoder"
     /\ codec.ret.t = "object"
     /\ Get(codec.ret, "base_id") # Undefined)
    => HeaderFromWire(codec.ret, codec.args.bytes)

\* the Environmental Sensor decoder reported the header 1, 1, 2, 1 for a payload
\* that starts with 0xFC 0xA8
C16_Witness ==
    /\ codec.pc = "returned"
    /\ codec.fn = "Decoder"
    /\ codec.args.unit = "part_000"
    /\ codec.args.bytes = <<252, 168, 74, 9, 0, 0, 0, 10>>
    /\ Reported(codec.ret, "base_id") = Num(1)
    /\ Reported(codec.ret, "major_version") = Num(1)
    /\ Reported(codec.ret, "minor_version") = Num(2)
    /\ Reported(codec.ret, "product_version") = Num(1)

\* the units that read the header do read it from bytes 0 and 1: Febris TH and
\* Juno TH, for every payload they decode into fields
C16_UnitsReadHeader ==
    (/\ pc = "returned"
     /\ unitResult # NoReturn
     /\ converterCode.src \in {"decoders/febris_th.js", "febris_th (engine copy)",
                               "juno_th.js:5-75"}
     /\ Len(rawData) >= 2
     /\ Get(Get(unitResult, "data"), "base_id") # Undefined)
    => HeaderFromWire(Get(unitResult, "data"), rawData)

\* two payloads carry the same header (bytes 0 and 1) and the same fifo size byte
SameHeaderAndCount(a, b) ==
    /\ At(a, 0) = At(b, 0)
    /\ At(a, 1) = At(b, 1)
    /\ At(a, 13) = At(b, 13)

\* C17: the layout of a payload is a function of its header alone: which fields are
\* produced and the byte offset at which each is read depend only on the header and
\* the count byte of a repeated block; two payloads with the same header and count
\* byte are parsed at identical offsets with an identical field set, whatever their
\* measured values and whatever their length.
C17_LayoutFromHeader ==
    (/\ codec.pc = "returned"
     /\ codec.fn = "decodeUplink"
     /\ codec.args.fPort = 1)
    => \A other \in FebrisCalls :
         (/\ other.args.fPort = 1
          /\ SameHeaderAndCount(codec.args.bytes, other.args.bytes))
         => FebrisUniversal_decodeUplink(other.args).reads = codec.ret.reads

\* a minor-version-2 payload with the wall sensor whose byte behind the empty FIFO
\* block is 0 was decoded: no dew point, and the wall temperature read at offset 15,
\* where the payload with the same header and a non-zero byte has its dew point
C17_Witness ==
    /\ codec.pc = "returned"
    /\ codec.fn = "decodeUplink"
    /\ codec.args = [unit |-> "febris_universal",
                     bytes |-> FebrisPayload(36, 0, 0, 20), fPort |-> 1]
    /\ codec.ret.reads =
         << <<"humidity", Num(7), 1>>, <<"alarm", Num(12), 1>>, <<"fifo size", Num(13), 1>>,
            <<"wall_temperature", Num(15), 1>>, <<"therm_temperature", Num(16), 1>>,
            <<"wall_humidity", Num(17), 1>> >>
    /\ FebrisUniversal_decodeUplink(
           [bytes |-> FebrisPayload(36, 0, 120, 20), fPort |-> 1]).reads[4]
         = <<"dew_point", Num(15), 1>>

\* in the current layout (minor_version >= 3) and before the dew point existed
\* (minor_version < 2) the reads are fixed by the header and the fifo size
C17_CurrentLayoutFromHeader ==
    (/\ codec.pc = "returned"
     /\ codec.fn = "decodeUplink"
     /\ codec.args.fPort = 1
     /\ codec.args.bytes[2] \div 16 # 2)
    => \A other \in FebrisCalls :
         (/\ other.args.fPort = 1
          /\ SameHeaderAndCount(codec.args.bytes, other.args.bytes))
         => FebrisUniversal_decodeUplink(other.args).reads = codec.ret.reads

\* bit n of the feature nibble of a payload, as 0 or 1
FeatureBit(bytes, n) == (bytes[2] \div (2 ^ n)) % 2

\* the record holds a property of that name
HasKey(rec, key) == \E i \in 1..Len(rec.entries) : rec.entries[i][1] = key

\* C18: optional field groups are laid out by accumulation in a fixed order: in the
\* Apollon QTR decoder the groups ToF (4 bytes, bit 0), Radar (14 bytes, bit 1),
\* ACC (6 bytes, bit 2), Hall (3 bytes, bit 3) are read in that order, each starting
\* at offset 9 plus the summed widths of the preceding groups whose bit is set, so the
\* final cursor is 9 + 4*b0 + 14*b1 + 6*b2 + 3*b3 for every bitmask; a group whose
\* bit is clear consumes no bytes.
C18_GroupsAccumulate ==
    (/\ codec.pc = "returned"
     /\ codec.fn = "Decoder"
     /\ codec.args.unit = "apollon-qtr"
     /\ codec.args.port = 1)
    => LET bytes == codec.args.bytes
           b0 == FeatureBit(bytes, 0)
           b1 == FeatureBit(bytes, 1)
           b2 == FeatureBit(bytes, 2)
           b3 == FeatureBit(bytes, 3)
       IN  /\ codec.ret.byte_cnt = Num(9 + 4 * b0 + 14 * b1 + 6 * b2 + 3 * b3)
           /\ HasKey(codec.ret, "tof_status") <=> b0 = 1
           /\ HasKey(codec.ret, "radar_status") <=> b1 = 1
           /\ HasKey(codec.ret, "acc_orientation") <=> b2 = 1
           /\ HasKey(codec.ret, "hall_open") <=> b3 = 1
           /\ b0 = 1 => /\ Get(codec.ret, "tof_status") = At(bytes, 9)
                        /\ Get(codec.ret, "tof_index") = At(bytes, 12)
           /\ b1 = 1 => /\ Get(codec.ret, "radar_status") = At(bytes, 9 + 4 * b0)
                        /\ Get(codec.ret, "radar_no_peaks") = At(bytes, 9 + 4 * b0 + 1)
           /\ b2 = 1 => /\ Get(codec.ret, "acc_orientation")
                             = At(bytes, 9 + 4 * b0 + 14 * b1 + 1)
                        /\ Get(codec.ret, "acc_open") = At(bytes, 9 + 4 * b0 + 14 * b1 + 2)
           /\ b3 = 1 => Get(codec.ret, "hall_open")
                          = At(bytes, 9 + 4 * b0 + 14 * b1 + 6 * b2)

\* a payload with the ToF, ACC and Hall groups but no Radar group was decoded: the
\* ACC group was read from offset 13, the Hall group from offset 19, and byte_cnt
\* ended at 22
C18_Witness ==
    /\ codec.pc = "returned"
    /\ codec.fn = "Decoder"
    /\ codec.args = [unit |-> "apollon-qtr", bytes |-> ApollonPayload(13, 36), port |-> 1]
    /\ Get(codec.ret, "tof_status") = Num(9)
    /\ ~HasKey(codec.ret, "radar_status")
    /\ Get(codec.ret, "acc_orientation") = Num(14)
    /\ Get(codec.ret, "hall_open") = Num(19)
    /\ codec.ret.byte_cnt = Num(22)

\* the temperature fields whose width and scale differ between the two layouts
LayoutFields == {"dew_point", "wall_temperature", "therm_temperature"}

\* a temperature of the current layout: two bytes at the offset, raw / 10 - 100
CurrentTemperature(bytes, it) ==
    Val(Frac(256 * ToInt32(AtCursor(bytes, it))
             + ToInt32(AtCursor(bytes, Advance(it, 1))) - 1000, 10), "°C")

\* a temperature of the legacy layout: one byte at the offset, byte - 100
LegacyTemperature(bytes, it) ==
    Val(IF AtCursor(bytes, it).t = "number" THEN Num(AtCursor(bytes, it).n - 100) ELSE NaN,
        "°C")

\* C19: version branches are mutually exclusive and chosen by version, not by length:
\* in the Febris universal decoder every port-1 payload is parsed by exactly one of
\* the two layouts, the current one (minor_version >= 3: dew point and wall/therm
\* temperatures are 2-byte fields scaled raw/10 - 100) or the legacy one
\* (minor_version < 3: the same fields are 1-byte fields scaled byte - 100), and the
\* choice depends on minor_version only.
C19_LayoutByMinorVersion ==
    (/\ codec.pc = "returned"
     /\ codec.fn = "decodeUplink"
     /\ codec.args.fPort = 1)
    => LET bytes == codec.args.bytes
           data == Get(codec.ret.value, "data")
           reads == codec.ret.reads
       IN  \A i \in 1..Len(reads) :
             reads[i][1] \in LayoutFields
             => IF bytes[2] \div 16 >= 3
                THEN /\ reads[i][3] = 2
                     /\ Get(data, reads[i][1]) = CurrentTemperature(bytes, reads[i][2])
                ELSE /\ reads[i][3] = 1
                     /\ Get(data, reads[i][1]) = LegacyTemperature(bytes, reads[i][2])

\* a payload of minor_version 3 with the wall sensor and one FIFO entry was decoded
\* by the current layout: dew point 2984 from the two bytes at offset 22, wall
\* temperature from offset 24
C19_Witness ==
    /\ codec.pc = "returned"
    /\ codec.fn = "decodeUplink"
    /\ codec.args = [unit |-> "febris_universal",
                     bytes |-> FebrisPayload(52, 1, 120, 27), fPort |-> 1]
    /\ Get(Get(codec.ret.value, "data"), "dew_point") = Val(Frac(29840, 10), "°C")
    /\ <<"dew_point", Num(22), 2>> = codec.ret.reads[4]
    /\ <<"wall_temperature", Num(24), 2>> = codec.ret.reads[5]

\* a payload of minor_version 2 with the same bytes behind the header was decoded by
\* the legacy layout: dew point 20 from the one byte at offset 22
C19_LegacyDecoded ==
    /\ codec.pc = "returned"
    /\ codec.fn = "decodeUplink"
    /\ codec.args = [unit |-> "febris_universal",
                     bytes |-> FebrisPayload(36, 1, 120, 27), fPort |-> 1]
    /\ Get(Get(codec.ret.value, "data"), "dew_point") = Val(Num(20), "°C")
    /\ <<"dew_point", Num(22), 1>> = codec.ret.reads[4]

\* C20: skip-block arithmetic: when a decoder skips a variable-length repeated block
\* consisting of a count byte k followed by k entries of width w (the Febris FIFO
\* block, w = 7), the cursor offset after the skip equals offset-before + 1 + k*w
\* exactly, for k in {0, 1, 16, 255}.
C20_SkipArithmetic ==
    (/\ codec.pc = "returned"
     /\ codec.fn = "decodeUplink"
     /\ codec.args.fPort = 1
     /\ Len(codec.args.bytes) > 13
     /\ codec.args.bytes[14] \in FifoCounts)
    => codec.ret.afterSkip = Num(13 + 1 + codec.args.bytes[14] * 7)

\* C20 as the code has it: the FIFO block is the fifo size byte k, one period byte
\* and k entries of 7 bytes, so the cursor after the skip is offset-before + 2 + 7*k
\* for k in {0, 1, 16, 255}, in the current and in the legacy layout, whenever the
\* payload holds the fifo size byte; the field behind the block is read there.
C20_SkipWithPeriodByte ==
    (/\ codec.pc = "returned"
     /\ codec.fn = "decodeUplink"
     /\ codec.args.fPort = 1
     /\ Len(codec.args.bytes) > 13
     /\ codec.args.bytes[14] \in FifoCounts)
    => LET k == codec.args.bytes[14]
           reads == codec.ret.reads
       IN  /\ codec.ret.afterSkip = Num(13 + 2 + 7 * k)
           /\ \A i \in 1..Len(reads) :
                 (i > 1 /\ reads[i - 1][1] = "fifo size") => reads[i][2] = Num(15 + 7 * k)
           /\ (codec.args.bytes[2] \div 16 >= 3 /\ Len(codec.args.bytes) > 16 + 7 * k)
              => Get(Get(codec.ret.value, "data"), "dew_point")
                   = Val(Frac(256 * codec.args.bytes[16 + 7 * k]
                              + codec.args.bytes[17 + 7 * k] - 1000, 10), "°C")

\* a payload with 255 FIFO entries was decoded: the cursor behind the block is
\* 13 + 2 + 1785 = 1800 and the dew point was read from the bytes at 1800 and 1801
C20_Witness ==
    /\ codec.pc = "returned"
    /\ codec.fn = "decodeUplink"
    /\ codec.args = [unit |-> "febris_universal",
                     bytes |-> FebrisPayload(48, 255, 120, 1805), fPort |-> 1]
    /\ codec.ret.afterSkip = Num(1800)
    /\ codec.ret.reads[4] = <<"dew_point", Num(1800), 2>>

-----------------------------------------------------------------------------
(* Properties of the NYX decoders *)

\* the record of telemetry fields a NYX call returned
NYXRecord == IF codec.fn = "NYX.decode" THEN codec.ret.value ELSE Get(codec.ret.value, "data")

\* the warnings a NYX call returned
NYXWarnings ==
    IF Get(codec.ret.value, "warnings").t = "array"
    THEN Get(codec.ret.value, "warnings").items ELSE <<>>

\* the optional groups of a NYX payload by its feature bits: the bit that announces
\* the group, the offset where it starts, its width and its fields
NYXGroups(bytes) ==
    LET product == bytes[2] % 16
        bme == 11 + (IF BitSet(product, 0) THEN 2 ELSE 0)
    IN  { [present |-> BitSet(product, 0), start |-> 11, width |-> 2,
           fields |-> {"lux"}],
          [present |-> BitSet(product, 2), start |-> bme, width |-> 3,
           fields |-> {"bme_status", "pressure"}],
          [present |-> BitSet(product, 2) /\ BitSet(product, 1), start |-> bme + 3,
           width |-> 3, fields |-> {"iaq_status", "iaq_index"}] }

\* a NYX call returned for a payload whose optional groups are parsed
NYXTelemetryReturned ==
    /\ codec.pc = "returned"
    /\ codec.fn \in {"NYX.decode", "NYX.decodeUplink"}
    /\ codec.fn = "NYX.decodeUplink" => codec.args.fPort = 1
    /\ codec.args.bytes[1] % 16 >= 1
    /\ Len(codec.args.bytes) > 10

\* C21: a feature bit that is set while too few bytes remain for its field group is
\* handled as an omitted optional group: none of that group's fields appears in the
\* record (the group is all-or-nothing), no byte at an index >= payload length is
\* read for it, a warning naming the omitted fields is emitted, and the decode still
\* succeeds. Checked for the NYX lux, BME/pressure and IAQ groups.
C21_ShortGroupOmitted ==
    NYXTelemetryReturned
    => /\ \A g \in NYXGroups(codec.args.bytes) :
            (g.present /\ g.start + g.width > Len(codec.args.bytes))
            => /\ \A f \in g.fields : ~HasKey(NYXRecord, f)
               /\ NYXWarnings # <<>>
       /\ \A o \in codec.ret.reads : o < Len(codec.args.bytes)
       /\ ~HasKey(NYXRecord, "error")

\* decode of NYX.js returned for a 12-byte payload with the BME bit: one byte remains
\* for the 3-byte group, bme_status was taken from it, pressure was left out, and the
\* record carries no warning
C21_Witness ==
    /\ codec.pc = "returned"
    /\ codec.fn = "NYX.decode"
    /\ codec.args.bytes = NYXPayload(1, 4, FALSE, 12)
    /\ Get(codec.ret.value, "bme_status") = Num(11)
    /\ ~HasKey(codec.ret.value, "pressure")
    /\ NYXWarnings = <<>>

\* decodeUplink of NYX.js returned for an 11-byte payload with the lux bit: it read
\* offsets 11 and 12 behind the payload and reports lux = 0 without a warning
C21_UplinkReadsBehindPayload ==
    /\ codec.pc = "returned"
    /\ codec.fn = "NYX.decodeUplink"
    /\ codec.args = [bytes |-> NYXPayload(1, 1, FALSE, 11), fPort |-> 1]
    /\ {11, 12} \subseteq codec.ret.reads
    /\ Get(Get(codec.ret.value, "data"), "lux") = Frac(0, 100)
    /\ NYXWarnings = <<>>

\* what decode of NYX.js does keep: it reads no byte behind the payload
C21_DecodeReadsInside ==
    (NYXTelemetryReturned /\ codec.fn = "NYX.decode")
    => \A o \in codec.ret.reads : o < Len(codec.args.bytes)

-----------------------------------------------------------------------------
(* Properties of the feature bits *)

\* the payload with bit n of the product_version nibble (byte 1) inverted
FlipFeatureBit(bytes, n) ==
    [bytes EXCEPT ![2] = IF BitSet(@, n) THEN @ - 2 ^ n ELSE @ + 2 ^ n]

\* the telemetry fields of a record in order: every entry but the header field that
\* repeats the inverted nibble
Telemetry(rec) == SelectSeq(rec.entries, LAMBDA e : e[1] # "product_version")

\* C22: untested bitmask bits have no effect: for a decoder that tests only some bits
\* of product_version (Juno TH tests bits 0 and 1 only; Febris tests bits 0 and 2
\* only), clearing or setting a never-tested bit in an otherwise identical payload
\* must not change the decoded output (the set of telemetry fields produced and each
\* of their values).
C22_UntestedBitsIgnored ==
    /\ (codec.pc = "returned" /\ codec.fn = "JunoTH.decodeUplink")
       => \A n \in {2, 3} :
            Telemetry(Get(codec.ret, "data"))
              = Telemetry(Get(JunoTH_decodeUplink(
                    [codec.args EXCEPT !.bytes = FlipFeatureBit(@, n)]).value, "data"))
    /\ (codec.pc = "returned" /\ codec.fn = "decodeUplink")
       => \A n \in {1, 3} :
            Telemetry(Get(codec.ret.value, "data"))
              = Telemetry(Get(FebrisUniversal_decodeUplink(
                    [codec.args EXCEPT !.bytes = FlipFeatureBit(@, n)]).value, "data"))

\* a Juno TH payload with product_version 9 (bit 0 tested and set, bit 3 never tested)
\* was decoded on port 1: the temperature group is there, the tilt group is not, as
\* for product_version 1
C22_Witness ==
    /\ codec.pc = "returned"
    /\ codec.fn = "JunoTH.decodeUplink"
    /\ codec.args = [bytes |-> JunoPayload(2, 9, 15), fPort |-> 1]
    /\ Get(Get(codec.ret, "data"), "humidity") = Val(Num(9), "%")
    /\ ~HasKey(Get(codec.ret, "data"), "orientation")
    /\ FlipFeatureBit(codec.args.bytes, 3) = JunoPayload(2, 1, 15)

-----------------------------------------------------------------------------
(* Properties of the Febris padding *)

\* the payload without the four bytes at the offsets 8..11
WithoutPadding(bytes) == SubSeq(bytes, 1, 8) \o SubSeq(bytes, 13, Len(bytes))

\* the payload with the four bytes at the offsets 8..11 replaced by one value
WithPadding(bytes, v) == [i \in 1..Len(bytes) |-> IF i \in 9..12 THEN v ELSE bytes[i]]

\* decodeUplink of the Febris universal decoder returned for a port-1 payload whose
\* feature bit 0 is unset
FebrisWithoutCo2Returned ==
    /\ codec.pc = "returned"
    /\ codec.fn = "decodeUplink"
    /\ codec.args.fPort = 1
    /\ ~BitSet(codec.args.bytes[2], 0)

\* C23: scenario C: in the Febris layout with product/feature bit 0 unset, the 4-byte
\* pressure/CO2 group is skipped entirely, and the next mandatory field (alarm)
\* decodes to the same value whether the payload carries 4 padding bytes in that
\* group's position or carries no bytes there at all; the field's offset is not
\* implied by payload length.
C23_AlarmWithOrWithoutPadding ==
    FebrisWithoutCo2Returned
    => Get(Get(codec.ret.value, "data"), "alarm")
         = Get(Get(FebrisUniversal_decodeUplink(
               [codec.args EXCEPT !.bytes = WithoutPadding(@)]).value, "data"), "alarm")

\* C23 as the code has it: with feature bit 0 unset the decoder reads none of the
\* four bytes at the offsets 8..11 and produces neither pressure nor co2_ppm; it
\* moves the cursor over them, so alarm is the byte at offset 12 for every payload
\* length, and the whole result is the same whatever the four bytes hold.
C23_PaddingSkippedUnread ==
    FebrisWithoutCo2Returned
    => LET data == Get(codec.ret.value, "data")
       IN  /\ Get(data, "alarm") = At(codec.args.bytes, 12)
           /\ ~HasKey(data, "pressure")
           /\ ~HasKey(data, "co2_ppm")
           /\ \A i \in 1..Len(codec.ret.reads) : codec.ret.reads[i][2] \notin {Num(o) : o \in 8..11}
           /\ \A v \in {0, 7, 255} :
                FebrisUniversal_decodeUplink(
                    [codec.args EXCEPT !.bytes = WithPadding(@, v)]) = codec.ret

\* a payload without the CO2 sensor was decoded: alarm is the byte 33 at offset 12,
\* while the same payload without the four padding bytes gives the alarm 120, the
\* byte that is at offset 12 there
C23_Witness ==
    /\ FebrisWithoutCo2Returned
    /\ codec.args.bytes = FebrisPayload(48, 0, 120, 20)
    /\ Get(Get(codec.ret.value, "data"), "alarm") = Num(33)
    /\ Get(Get(FebrisUniversal_decodeUplink(
           [codec.args EXCEPT !.bytes = WithoutPadding(@)]).value, "data"), "alarm")
         = Num(120)

-----------------------------------------------------------------------------
(* Properties of the scenarios *)

\* C24: scenario A: a payload whose header bytes are 0x11 0x32 decodes to base_id = 1,
\* major_version = 1, minor_version = 3, product_version = 2, and its battery-voltage
\* field 0x0C 0x1C (3100 raw, big-endian, divisor 1000) yields a measurement named
\* battery_voltage with numeric value 3.100 and unit 'V' after normalization, for
\* every Febris decoder variant in the repository.
C24_ScenarioA ==
    (norm.pc = "returned" /\ norm.decoded \in ScenarioARecords)
    => /\ Get(norm.decoded, "base_id") = Num(1)
       /\ Get(norm.decoded, "major_version") = Num(1)
       /\ Get(norm.decoded, "minor_version") = Num(3)
       /\ Get(norm.decoded, "product_version") = Num(2)
       /\ norm.completion.ok
       /\ \E i \in 1..Len(norm.completion.value) :
            /\ norm.completion.value[i].type = "battery_voltage"
            /\ norm.completion.value[i].value = Frac(3100, 1000)
            /\ norm.completion.value[i].unit = "V"

\* the record of the Febris universal decoder for a scenario A payload was
\* normalized: the header fields are 1, 1, 3, 2, and the measurement battery_voltage
\* has the unit 'V' and the value '[object Object]'
C24_Witness ==
    /\ norm.pc = "returned"
    /\ norm.decoded = FebrisData("decoders/febris_universal.js", ScenarioAPayload(0, 17))
    /\ Get(norm.decoded, "battery_voltage") = Val(Frac(3100, 1000), "V")
    /\ norm.completion.ok
    /\ \E i \in 1..Len(norm.completion.value) :
         /\ norm.completion.value[i].type = "battery_voltage"
         /\ norm.completion.value[i].value = Str("[object Object]")
         /\ norm.completion.value[i].unit = "V"

\* the variants that report the battery voltage as a plain number do yield the
\* measurement of scenario A: 3.100 with the unit 'V'
C24_PlainVariants ==
    (/\ norm.pc = "returned"
     /\ \E variant \in FebrisVariants \ {"decoders/febris_universal.js"} :
          \E fill \in {0, 1, 200}, len \in {17, 24} :
            norm.decoded = FebrisData(variant, ScenarioAPayload(fill, len)))
    => /\ Get(norm.decoded, "minor_version") = Num(3)
       /\ norm.completion.ok
       /\ \E i \in 1..Len(norm.completion.value) :
            /\ norm.completion.value[i].type = "battery_voltage"
            /\ norm.completion.value[i].value = Frac(3100, 1000)
            /\ norm.completion.value[i].unit = "V"

-----------------------------------------------------------------------------
(* Properties of repeated and interleaved invocations *)

\* the record an invocation returns when it runs from the call to the return with
\* nothing before it and nothing beside it
RECURSIVE RunAlone(_)
RunAlone(h) ==
    IF h.pc = "called" THEN RunAlone(Entered(h))
    ELSE IF h.pc = "running" /\ h.todo # <<>> THEN RunAlone(Stepped(h))
    ELSE h.result

\* C25: decoding is deterministic: for every decoding unit and every (payload, port)
\* input, two invocations, whether consecutive or separated by any number of decodes
\* of other payloads, return identical records and identical measurement sequences;
\* no decoder output depends on state left behind by an earlier decode.
C25_Deterministic ==
    (hyp.pc = "done" /\ hyp.again > 0)
    => hyp.result = RunAlone(Called(hyp.dataBytes))

\* decode returned the header-only record of a bad-status uplink after an earlier
\* invocation had left the fields of a profile-2 uplink in result and 54 in index
C25_Witness ==
    /\ hyp.pc = "done"
    /\ hyp.again = 1
    /\ hyp.dataBytes = HypPayload(20, 3, 1, 0, 48)
    /\ hyp.index = 0
    /\ hyp.result = HyperionHeader(hyp.dataBytes)
    /\ hyp.parked.pc = "called"

-----------------------------------------------------------------------------
(* Properties of the copies of the Hyperion decoder *)

\* a payload of minor version 3 or above whose status byte is not 0 was decoded
BadStatusDecoded ==
    /\ hyp.pc = "done"
    /\ hyp.given = "array"
    /\ Len(hyp.dataBytes) >= 16
    /\ hyp.dataBytes[2] >= 3
    /\ hyp.dataBytes[4] # 0

\* C27: for Hyperion payloads with minor version >= 3, status 0 is the only good
\* status: any non-zero status byte yields a record that holds the header fields
\* only, with no payload_profile and no telemetry field, in decode of Hyperion.js
\* and in its copy in febris_universal.js alike.
C27_BadStatusHeaderOnly ==
    BadStatusDecoded => hyp.result = HyperionHeader(hyp.dataBytes)

\* the copy in febris_universal.js decoded a 92-byte payload of minor version 3 with
\* status 1: the record has no payload_profile and holds e_ta_a_i read at offset 84
C27_Witness ==
    /\ BadStatusDecoded
    /\ hyp.copy = "febris_universal.js"
    /\ Len(hyp.dataBytes) = 92
    /\ hyp.dataBytes[4] = 1
    /\ ~HasKey(Obj(hyp.result), "payload_profile")
    /\ HasKey(Obj(hyp.result), "e_ta_a_i")
    /\ View(84, 4) \in hyp.viewed
    /\ hyp.index = 92

\* decode of Hyperion.js returns the header alone for every non-zero status, and so
\* does the copy for every status other than 1 and 2
C27_HeaderOnlyOutsideTheCopyBranches ==
    (BadStatusDecoded /\ (hyp.copy = "Hyperion.js" \/ hyp.dataBytes[4] \notin {1, 2}))
    => hyp.result = HyperionHeader(hyp.dataBytes)

\* C29: the Hyperion decoder is total: for null and for a byte array of any length
\* decode never throws; an input shorter than 16 bytes is answered by the record
\* {error, raw_length} alone, raw_length being the actual length (0 for null); and
\* no DataView getter is ever called with offset + width beyond the payload length,
\* also behind the jumps index = 16, 17, 84 and index += 16 (both decode of
\* Hyperion.js and its copy in febris_universal.js).
C29_Total ==
    /\ hyp.pc # "thrown"
    /\ \A view \in hyp.viewed :
         view.offset >= 0 /\ view.offset + view.width <= Len(hyp.dataBytes)
    /\ (hyp.pc = "done" /\ (hyp.given = "null" \/ Len(hyp.dataBytes) < 16))
       => /\ Len(hyp.result) = 2
          /\ hyp.result[1][1] = "error"
          /\ hyp.result[2] = <<"raw_length",
                               Num(IF hyp.given = "null" THEN 0 ELSE Len(hyp.dataBytes))>>

\* the copy decoded a 91-byte payload of minor version 3 with status 1: after
\* index = 84 the eight bytes of e_ta_a_i end one byte behind the payload, no getter
\* was called for them and the field is 0; the fields before the jump were read
C29_Witness ==
    /\ hyp.pc = "done"
    /\ hyp.copy = "febris_universal.js"
    /\ Len(hyp.dataBytes) = 91
    /\ hyp.dataBytes[2] = 3
    /\ hyp.dataBytes[4] = 1
    /\ hyp.index = 92
    /\ View(68, 4) \in hyp.viewed
    /\ View(84, 4) \notin hyp.viewed
    /\ \E i \in 1..Len(hyp.result) : hyp.result[i] = <<"e_ta_a_i", Num(0)>>

\* decode was called with null and returned raw_length 0
C29_NullAnswered ==
    (hyp.pc = "done" /\ hyp.given = "null")
    => hyp.result = << <<"error", Str("Payload zu kurz (min. 16 Bytes)")>>,
                       <<"raw_length", Num(0)>> >>

-----------------------------------------------------------------------------
(* Properties of the Apollon QPP decoder *)

ObjectFields ==
    {"object_status", "object_distance", "object_sigma", "object_signal",
     "object_ambient", "object_level"}

\* decode of apollon-qpp.js returned for port 1
ApollonQppReturned ==
    /\ codec.pc = "returned"
    /\ codec.fn = "ApollonQPP.decode"
    /\ (codec.args.metadata.t = "undefined" \/ codec.args.metadata.fPort \in {0, 1})

\* the big-endian 16-bit number at offset i of the payload
QppWord(i) ==
    LET b(k) == IF k < Len(codec.args.payload) THEN codec.args.payload[k + 1] ELSE 0
    IN  Num(b(i) * 256 + b(i + 1))

\* C28: on port 1 the Apollon QPP decoder resolves its status byte (offset 6) into
\* exactly one of three outcomes: upper nibble non-zero -> error = status, and
\* neither object_present nor any object_* field; status 0 -> error = 0,
\* object_present = false, no object_* field; otherwise -> error = 0, object_present
\* = true and the object group read from offset 7 (status 1 byte, distance, sigma,
\* signal, ambient 2 bytes each), with object_level read as the tenth byte of the
\* group exactly when minor_version >= 2.
C28_StatusOutcomes ==
    ApollonQppReturned =>
        LET bytes == codec.args.payload
            rec == codec.ret.value
            status == IF Len(bytes) > 6 THEN bytes[7] ELSE -1
            minor_version == bytes[2] \div 16
        IN  IF status >= 16
            THEN /\ Get(rec, "error") = Num(status)
                 /\ ~HasKey(rec, "object_present")
                 /\ \A key \in ObjectFields : ~HasKey(rec, key)
                 /\ codec.ret.reads = {}
            ELSE IF status = 0
            THEN /\ Get(rec, "error") = Num(0)
                 /\ Get(rec, "object_present") = Bool(FALSE)
                 /\ \A key \in ObjectFields : ~HasKey(rec, key)
                 /\ codec.ret.reads = {}
            ELSE /\ Get(rec, "error") = Num(0)
                 /\ Get(rec, "object_present") = Bool(TRUE)
                 /\ Get(rec, "object_status") = At(bytes, 7)
                 /\ Get(rec, "object_distance") = Val(QppWord(8), "mm")
                 /\ Get(rec, "object_sigma") = QppWord(10)
                 /\ Get(rec, "object_signal") = QppWord(12)
                 /\ Get(rec, "object_ambient") = QppWord(14)
                 /\ HasKey(rec, "object_level") <=> minor_version >= 2
                 /\ minor_version >= 2 => Get(rec, "object_level") = At(bytes, 16)
                 /\ codec.ret.reads = IF minor_version >= 2 THEN 7..16 ELSE 7..15

\* an 18-byte payload of minor version 2 with status 5 was decoded: the object group
\* starts at offset 7 and object_level is the byte at offset 16
C28_Witness ==
    /\ ApollonQppReturned
    /\ codec.args.payload = ApollonQppPayload(2, 5, 18)
    /\ Get(codec.ret.value, "error") = Num(0)
    /\ Get(codec.ret.value, "object_present") = Bool(TRUE)
    /\ Get(codec.ret.value, "object_status") = Num(8)
    /\ Get(codec.ret.value, "object_distance") = Val(Num(9 * 256 + 10), "mm")
    /\ Get(codec.ret.value, "object_level") = Num(17)

-----------------------------------------------------------------------------
(* Properties of the unit-annotated copy of the Febris decoder *)

\* the fields the universal decoder stores as { value, unit }
WrappedFields ==
    {"battery_voltage", "internal_temperature", "humidity", "pressure", "co2_ppm",
     "dew_point", "wall_temperature", "therm_temperature", "wall_humidity"}

\* the fields that name the network, not a quantity
NetworkFields == {"networkBaseType", "networkSubType"}

\* decodeUplink of the Febris universal decoder returned
FebrisUniversalReturned ==
    /\ codec.pc = "returned"
    /\ codec.fn = "decodeUplink"

\* C30: the unit-annotated Febris universal decoder refines the original Febris
\* decoder: for every payload and every port both produce the same telemetry field
\* names, read every field at the same byte offset, and the number the universal
\* decoder wraps as {value, unit} equals the plain number the original produces for
\* that field.
C30_UniversalRefinesOriginal ==
    FebrisUniversalReturned =>
        LET original == FebrisOriginal_decodeUplink(codec.args)
            wrapped == Get(codec.ret.value, "data").entries
            plain == Get(original.value, "data").entries
        IN  /\ Len(wrapped) = Len(plain)
            /\ codec.ret.reads = original.reads
            /\ \A i \in 1..Len(wrapped) :
                 /\ wrapped[i][1] = plain[i][1]
                 /\ wrapped[i][1] \in WrappedFields
                    => /\ wrapped[i][2].t = "object"
                       /\ Len(wrapped[i][2].entries) = 2
                       /\ wrapped[i][2].entries[1] = <<"value", plain[i][2]>>
                       /\ wrapped[i][2].entries[2][1] = "unit"
                 /\ wrapped[i][1] \notin WrappedFields \cup NetworkFields
                    => wrapped[i][2] = plain[i][2]

\* a payload of minor version 3 with all groups and one fifo entry was decoded: the
\* wall temperature is wrapped, 0x7878 / 10 - 100 read at offset 24, and the original
\* yields the same number unwrapped
C30_Witness ==
    /\ FebrisUniversalReturned
    /\ codec.args.fPort = 1
    /\ codec.args.bytes = FebrisPayload(53, 1, 120, 27)
    /\ <<"wall_temperature", Num(24), 2>> \in Range(codec.ret.reads)
    /\ Get(Get(codec.ret.value, "data"), "wall_temperature") = Val(Frac(30840 - 1000, 10), "°C")
    /\ Get(Get(FebrisOriginal_decodeUplink(codec.args).value, "data"), "wall_temperature")
       = Frac(30840 - 1000, 10)
=============================================================================
